---- MODULE Spec2Model ----
(***************************************************************************)
(* Model of the Mayhem chaos orchestrator (src/orchestrator/               *)
(* chaos_injector.py, src/utils/security.py, src/models/database.py) and   *)
(* of the components beside it: NLPLogAnalyzer.predict_failure_likelihood  *)
(* (src/ai_models/nlp_log_analysis.py), RemediationAgent (src/orchestrator *)
(* /remediation_agent.py), MetricsCollector (src/monitoring/               *)
(* metrics_collector.py), ScenarioGenerator.evolve_scenarios               *)
(* (src/orchestrator/scenario_generator.py).                               *)
(*                                                                         *)
(* POST /inject is modelled statement by statement where another thread    *)
(* can observe the difference: the request thread and the worker thread    *)
(* it starts share the ChaosExperiment object, and every attribute         *)
(* assignment and every db.session.commit() is a step of its own.          *)
(*                                                                         *)
(* Environment failures the code has handlers for (a psutil read, a        *)
(* db.session call, an exception inside a worker, a file write or remove)  *)
(* are injected non-deterministically, at most MaxFaults per behaviour.    *)
(* Thread.start() is taken to succeed, so the handler of lines 415-425 is  *)
(* not entered.  Outside SpecGuarded the decorators of inject (API key,    *)
(* rate limit) have let the request through.  Durations are JSON integers, *)
(* strings or null.                                                        *)
(*                                                                         *)
(* Spec            one request and its worker, every input, with failures  *)
(* SpecConcurrent  MaxRequests concurrent requests, no failure             *)
(* SpecDisk        disk_fill requests with the file loop of disk_stress    *)
(* SpecDiskPair    concurrent disk_fill requests, with failures            *)
(* SpecCleanup     the workers of SpecDiskPair, the requests dispatched    *)
(* SpecCatalog     one request of every scenario id, and GET /scenarios    *)
(* SpecGuarded     concurrent requests through require_api_key and         *)
(*                 rate_limit up to the start of their workers             *)
(* SpecLimiter     the two decorators alone, the threads taking request    *)
(*                 after request while time passes                         *)
(* SpecEvolve      evolve_scenarios over lists and feedbacks               *)
(* SpecScenarios   Spec with GET /scenarios called at any moment           *)
(* SpecRisk        predict_failure_likelihood over the metrics dicts       *)
(* SpecStatus      GET /system-status over the outcomes of its reads       *)
(* SpecRemediation RemediationAgent: its history under any calls           *)
(* SpecCollect     collect_metrics over the outcomes of its reads          *)
(* SpecPrometheus  one send_to_prometheus call; weakly fair caller         *)
(* SpecTimed       one request and its worker against the clock, with      *)
(*                 failures; weakly fair worker and clock                  *)
(***************************************************************************)
EXTENDS Integers, Sequences, FiniteSets, TLC

VARIABLES
  data,             \* per request: the JSON body (request.get_json)
  reqpc,            \* per request: position of the request thread in inject
  resp,             \* per request: the HTTP response returned
  current_metrics,  \* per request: the local current_metrics of inject
  experiment,       \* per request: the local experiment (shared with the worker)
  rows,             \* table chaos_experiments: committed rows, index = id
  wpc,              \* per request: position of the worker thread
  wexc,             \* per request: the exception the worker caught
  faults,           \* environment failures injected so far
  fs,               \* names i of the files chaos_disk_<i>.tmp on disk
  temp_files,       \* per request: the local temp_files of disk_stress
  wi,               \* per request: loop index i of disk_stress and mem_stress
  removed,          \* per request: what each os.remove of the cleanup did
  now,              \* time.time(), in milliseconds
  end_time,         \* per request: the local end_time of its worker, in ms
  burning,          \* per request: burn threads of cpu_stress still alive
  calls,            \* the lists GET /scenarios has returned, oldest first
  risk_metrics,     \* argument current_metrics of predict_failure_likelihood
  prediction,       \* the dict predict_failure_likelihood returned last
  reads,            \* what each psutil read of the last GET /system-status did
  status_resp,      \* the response of the last GET /system-status
  agent,            \* the RemediationAgent object
  collector,        \* MetricsCollector and the frame of send_to_prometheus
  generator,        \* the last call of ScenarioGenerator.evolve_scenarios
  security          \* the SecurityManager object and the decorators' answers

\* the variables of POST /inject
injectvars == <<data, reqpc, resp, current_metrics, experiment, rows, wpc, wexc,
                faults, fs, temp_files, wi>>

\* the clock and what the timed workers keep
timevars == <<now, end_time, burning>>

\* what the other endpoints and components keep
\* what NLPLogAnalyzer.predict_failure_likelihood is given and returns
riskvars == <<risk_metrics, prediction>>

\* GET /system-status
statusvars == <<reads, status_resp>>

\* ScenarioGenerator and SecurityManager
libvars == <<generator, security>>

\* the endpoints and components beside POST /inject
othervars == <<calls, riskvars, statusvars, agent, collector, libvars>>

svcvars == <<removed, othervars>>

vars == <<injectvars, timevars, svcvars>>

(* ------------------------------ bounds -------------------------------- *)

\* concurrent POST /inject requests in flight
MaxRequests == 2

\* injected environment failures per behaviour
MaxFaults == 2

\* disk_fill requests of the disk specification
MaxDiskWorkers == 1

\* one modelled temp file stands for DiskScale consecutive 1MB files
DiskScale == 25

\* longest duration of the timed specification besides the sampled ones
MaxTimedDuration == 3

\* iterations of the mem_stress loop taken in one step
AllocBatch == 5000

\* GET /scenarios calls of one behaviour
MaxCalls == 2

\* _record_remediation calls of one behaviour, past max_history
MaxRecorded == 103

\* requests.post calls counted; further calls leave the count there
MaxAttempts == 5

\* consecutive failed collections counted by collect_metrics
MaxCollectionErrors == 3

Requests == 1..MaxRequests

DiskRequests == 1..MaxDiskWorkers

(* --------------------------- python values ---------------------------- *)

\* Python None for a string-valued attribute
None == "None"

\* a key that is absent from the JSON object
MISSING == "<missing>"

\* raw JSON values of the duration key
JInt(n) == [kind |-> "int", val |-> n]

JStr == [kind |-> "str", val |-> 0]

JNull == [kind |-> "null", val |-> 0]

JMissing == [kind |-> "missing", val |-> 0]

\* dict.get(key, default)
Get(v, default) == IF v = MISSING THEN default ELSE v

GetDuration(v, default) == IF v.kind = "missing" THEN JInt(default) ELSE v

\* int(x): [ok, val]; a non-numeric string raises ValueError, None TypeError
PyInt(v) == IF v.kind = "int" THEN [ok |-> TRUE, val |-> v.val]
            ELSE [ok |-> FALSE, val |-> 0]

(* ----------------------------- validation ----------------------------- *)

valid_scenarios ==
  << "cpu_spike", "memory_leak", "disk_fill", "network_latency",
     "network_partition", "process_kill", "container_restart",
     "database_slowdown", "api_timeout", "ssl_certificate_expired",
     "dns_failure", "storage_corruption", "kubernetes_pod_eviction",
     "service_discovery_failure", "load_balancer_failure" >>

InList(x, list) == \E i \in 1..Len(list) : list[i] = x

valid_intensities == << "low", "medium", "high" >>

MinDuration == 1

MaxDuration == 300

Valid == [ok |-> TRUE, msg |-> "Valid input"]

Invalid(m) == [ok |-> FALSE, msg |-> m]

\* validate_chaos_input with the scenario check dropped
validate_chaos_input_any_scenario(d) ==
  IF ~d.isdict THEN Invalid("Invalid JSON data")
  ELSE LET duration  == PyInt(GetDuration(d.duration, 0))
           intensity == Get(d.intensity, "")
       IN  IF ~duration.ok THEN Invalid("Duration must be a valid integer")
           ELSE IF duration.val < MinDuration \/ duration.val > MaxDuration
             THEN Invalid("Duration must be between 1 and 300 seconds")
           ELSE IF ~InList(intensity, valid_intensities)
             THEN Invalid("Intensity must be 'low', 'medium', or 'high'")
           ELSE Valid

validate_chaos_input(d) ==
  IF ~d.isdict THEN Invalid("Invalid JSON data")
  ELSE LET scenario  == Get(d.scenario, "")
           duration  == PyInt(GetDuration(d.duration, 0))
           intensity == Get(d.intensity, "")
       IN  IF ~InList(scenario, valid_scenarios)
             THEN Invalid("Invalid scenario. Must be one of: ...")
           ELSE IF ~duration.ok THEN Invalid("Duration must be a valid integer")
           ELSE IF duration.val < MinDuration \/ duration.val > MaxDuration
             THEN Invalid("Duration must be between 1 and 300 seconds")
           ELSE IF ~InList(intensity, valid_intensities)
             THEN Invalid("Intensity must be 'low', 'medium', or 'high'")
           ELSE Valid

(* ------------------------- scenario dispatch -------------------------- *)

\* a GET /scenarios that lists the scenarios with a worker of their own
available_dedicated_only ==
  << "cpu_spike", "memory_leak", "disk_fill", "network_latency",
     "process_kill", "database_slowdown", "api_timeout" >>

\* GET /scenarios: the list available
available ==
  << "cpu_spike", "memory_leak", "disk_fill", "network_latency",
     "network_partition", "process_kill", "container_restart",
     "database_slowdown", "api_timeout", "ssl_certificate_expired",
     "dns_failure", "storage_corruption", "kubernetes_pod_eviction",
     "service_discovery_failure", "load_balancer_failure" >>

\* the worker closure the if/elif chain of inject starts
WorkerOf(scenario) ==
  CASE scenario = "cpu_spike"         -> "cpu_stress"
    [] scenario = "memory_leak"       -> "mem_stress"
    [] scenario = "disk_fill"         -> "disk_stress"
    [] scenario = "network_latency"   -> "network_delay"
    [] scenario = "api_timeout"       -> "timeout_simulation"
    [] scenario = "process_kill"      -> "process_chaos"
    [] scenario = "database_slowdown" -> "db_slowdown"
    [] OTHER                          -> "generic_chaos"

simulation_scenarios(scenario) ==
  CASE scenario = "network_partition"         -> "Network partition simulation"
    [] scenario = "container_restart"         -> "Container restart simulation"
    [] scenario = "ssl_certificate_expired"   -> "SSL certificate expiry simulation"
    [] scenario = "dns_failure"               -> "DNS resolution failure simulation"
    [] scenario = "storage_corruption"        -> "Storage corruption simulation"
    [] scenario = "kubernetes_pod_eviction"   -> "Kubernetes pod eviction simulation"
    [] scenario = "service_discovery_failure" -> "Service discovery failure simulation"
    [] scenario = "load_balancer_failure"     -> "Load balancer failure simulation"
    [] OTHER                                  -> scenario

\* the "result" text of the acknowledgement, without its parameters
ResultLabel(scenario) ==
  CASE scenario = "cpu_spike"         -> "CPU spike"
    [] scenario = "memory_leak"       -> "Memory leak"
    [] scenario = "disk_fill"         -> "Disk fill"
    [] scenario = "network_latency"   -> "Network latency"
    [] scenario = "api_timeout"       -> "API timeout"
    [] scenario = "process_kill"      -> "Process instability"
    [] scenario = "database_slowdown" -> "Database slowdown"
    [] OTHER                          -> simulation_scenarios(scenario)

(* ------------------------------ responses ----------------------------- *)

NoResponse == [code |-> 0, error |-> None, label |-> None, scenario |-> None,
               intensity |-> None, duration |-> 0]

ErrorResponse(code, msg) ==
  [code |-> code, error |-> msg, label |-> None, scenario |-> None,
   intensity |-> None, duration |-> 0]

\* jsonify(result): {"result": f"<label> (<intensity>) ... for <duration>s",
\*                   "scenario": scenario}, status 200
Acknowledgement(scenario, duration, intensity) ==
  [code |-> 200, error |-> None, label |-> ResultLabel(scenario),
   scenario |-> scenario, intensity |-> intensity, duration |-> duration]

(* ---------------------------- experiments ----------------------------- *)

\* the local variable experiment = None
NoExperiment ==
  [obj |-> FALSE, id |-> 0, scenario |-> None, duration |-> 0,
   intensity |-> None, status |-> None, start_time |-> None,
   end_time |-> None, result |-> None, metrics_before |-> None,
   error_message |-> None]

\* ChaosExperiment(scenario=..., duration=..., intensity=..., metrics_before=...)
\* before any flush: the column defaults are not applied yet
ChaosExperiment(scenario, duration, intensity, metrics_before) ==
  [obj |-> TRUE, id |-> 0, scenario |-> scenario, duration |-> duration,
   intensity |-> intensity, status |-> None, start_time |-> None,
   end_time |-> None, result |-> None, metrics_before |-> metrics_before,
   error_message |-> None]

\* the INSERT of the first commit: primary key and column defaults
Inserted(e, id) ==
  [e EXCEPT !.id = id, !.status = "running", !.start_time = "utcnow"]

\* bool(x) of a string attribute
Truthy(s) == s # None /\ s # ""


(* ------------------------------ payloads ------------------------------ *)

Body(scenario, duration, intensity) ==
  [isdict |-> TRUE, scenario |-> scenario, duration |-> duration,
   intensity |-> intensity]

\* a JSON body that is not an object (a list, a number)
NotADict == [isdict |-> FALSE, scenario |-> MISSING, duration |-> JMissing,
             intensity |-> MISSING]

NoData == [isdict |-> FALSE, scenario |-> None, duration |-> JMissing,
           intensity |-> None]

\* bodies of the concurrent specification
Payloads ==
  { Body("cpu_spike", JInt(1), "low"),
    Body("memory_leak", JInt(300), "high"),
    Body("not_a_real_scenario", JInt(5), "low"),
    Body("cpu_spike", JInt(0), "low"),
    Body("cpu_spike", JInt(301), "low"),
    Body("cpu_spike", JInt(5), "invalid_intensity") }

\* bodies of the single-request specification: the boundary of every check
ScenarioInputs == { "cpu_spike", "memory_leak", "dns_failure",
                    "not_a_real_scenario", "", MISSING }

DurationInputs == { JInt(-1), JInt(0), JInt(1), JInt(300), JInt(301),
                    JStr, JNull, JMissing }

IntensityInputs == { "low", "medium", "high", "invalid_intensity", "", MISSING }

AllPayloads ==
  { Body(s, d, i) : s \in ScenarioInputs, d \in DurationInputs,
                    i \in IntensityInputs } \cup { NotADict }

DiskPayloads == { Body("disk_fill", JInt(1), "low"),
                  Body("disk_fill", JInt(1), "medium") }

\* the locals scenario, duration, intensity of inject (lines 121-123)
\* the bodies of the timed specification: one scenario for every worker
TimedScenarios == { "cpu_spike", "memory_leak", "disk_fill", "network_latency",
                    "api_timeout", "process_kill", "database_slowdown",
                    "dns_failure" }

\* 31 is above every timeout_duration and kill_delay
TimedDurations == (1..MaxTimedDuration) \cup { 31 }

TimedPayloads ==
  { Body(s, JInt(n), i) : s \in TimedScenarios, n \in TimedDurations,
                          i \in { "low", "medium", "high" } }

scenario_of(d) == Get(d.scenario, "cpu_spike")

duration_of(d) == PyInt(GetDuration(d.duration, 10)).val

intensity_of(d) == Get(d.intensity, "medium")

\* predict_failure_likelihood not called yet
NoMetrics == [ cpu_percent |-> JNull, memory_percent |-> JNull,
               disk_percent |-> JNull ]

NoPrediction ==
  [ called |-> FALSE, overall_risk |-> None, risk_score |-> 0,
    specific_risks |-> [ cpu_failure |-> 0, memory_failure |-> 0,
                         disk_failure |-> 0 ],
    recommended_preventive_chaos |-> << >> ]

\* GET /system-status not called yet
NoReads == [ cpu |-> None, memory |-> None, disk |-> None, network |-> None,
             processes |-> None ]

NoStatus == [ code |-> 0, status |-> None, cpu |-> None, memory |-> None,
              disk |-> None, network |-> None, processes |-> None ]

\* RemediationAgent.__init__, lines 16-25; recorded counts the records ever
\* made and stands for datetime.utcnow() in their timestamps
RemediationAgent ==
  [ current_state |-> "unknown", remediation_history |-> << >>,
    recorded |-> 0, returned |-> None ]

\* self.max_history = 100
max_history == 100

\* the prometheus_url a MetricsCollector is built with
PrometheusUrls == { "http://localhost:9090", "http://pushgateway:9091" }

\* 'pushgateway' in self.prometheus_url
HasPushgateway(url) == url = "http://pushgateway:9091"

\* the sections collect_metrics reads, in the order of its try blocks
Sections == << "cpu", "memory", "disk", "network", "processes", "system" >>

\* collect_metrics not called yet: nothing read, nothing returned
NoSectionReads == [ s \in { Sections[i] : i \in 1..Len(Sections) } |-> None ]

NoCollected ==
  [ cpu |-> None, memory |-> None, swap |-> None, disk |-> None,
    network |-> None, processes |-> None, system |-> None,
    collection |-> None ]

\* MetricsCollector.__init__, lines 19-24, and no call of send_to_prometheus
\* or collect_metrics; psutil is what the reads of the last collect_metrics
\* did, collected the dict it returned
MetricsCollector(url) ==
  [ prometheus_url |-> url, pc |-> "idle", metrics |-> None,
    retry_count |-> 0, attempts |-> 0, answered |-> None, returned |-> None,
    collection_errors |-> 0, psutil |-> NoSectionReads,
    collected |-> NoCollected ]

(* -------------------------------- Init -------------------------------- *)

InitInject ==
  /\ data = [r \in Requests |-> NoData]
  /\ reqpc = [r \in Requests |-> "idle"]
  /\ resp = [r \in Requests |-> NoResponse]
  /\ current_metrics = [r \in Requests |-> None]
  /\ experiment = [r \in Requests |-> NoExperiment]
  /\ rows = << >>
  /\ wpc = [r \in Requests |-> "none"]
  /\ wexc = [r \in Requests |-> None]
  /\ faults = 0
  /\ fs = {}
  /\ temp_files = [r \in Requests |-> << >>]
  /\ wi = [r \in Requests |-> 0]
  /\ removed = [r \in Requests |-> << >>]
  /\ now = 0
  /\ end_time = [r \in Requests |-> 0]
  /\ burning = [r \in Requests |-> 0]
  /\ calls = << >>

\* ScenarioGenerator.__init__: self.max_scenarios
max_scenarios == 50

\* a scenario of a list handed to evolve_scenarios: whether it is a dict,
\* whether it has the key 'name', and its 'details' (kept for a non-dict
\* as "", it has none)
Scenario(isdict, hasname, details) ==
  [ isdict |-> isdict, name |-> hasname, details |-> details ]

\* ScenarioGenerator.__init__: self.default_scenarios, three dicts with a name
default_scenarios ==
  << Scenario(TRUE, TRUE, "Basic CPU stress test"),
     Scenario(TRUE, TRUE, "Basic memory stress test"),
     Scenario(TRUE, TRUE, "Basic network degradation test") >>

\* evolve_scenarios not called yet
NoEvolve ==
  [ scenarios |-> [ type |-> None, items |-> << >> ],
    feedback  |-> [ type |-> None, result |-> None,
                    add_network_partition |-> FALSE, add_cpu_spike |-> FALSE ],
    called    |-> FALSE,
    returned  |-> << >> ]

\* the clients of the API, by remote address
Clients == { "10.0.0.1", "10.0.0.2" }

\* the frame of the decorators of one request thread: where it is, the
\* locals client_ip, current_time and recent_requests, the index of its
\* request in the log
NoFrame ==
  [ pc |-> "idle", client_ip |-> None, current_time |-> 0, recent |-> << >>,
    n |-> 0 ]

\* SecurityManager.__init__: no client has an entry in rate_limit_storage.
\* requests_per_minute is the argument of the rate_limit decorator; log
\* lists the requests in the order they arrived, with their answers.
SecurityManager ==
  [ rate_limit_storage  |-> << >>,
    requests_per_minute |-> 30,
    frame               |-> [ r \in Requests |-> NoFrame ],
    log                 |-> << >> ]

\* GET /system-status not called, RemediationAgent() just constructed
InitComponents ==
  /\ reads = NoReads
  /\ status_resp = NoStatus
  /\ agent = RemediationAgent
  /\ generator = NoEvolve
  /\ security = SecurityManager

\* predict_failure_likelihood not called
InitNoRisk ==
  /\ risk_metrics = NoMetrics
  /\ prediction = NoPrediction

\* no request received, no component called yet
Init ==
  /\ InitInject
  /\ InitNoRisk
  /\ InitComponents
  /\ collector = MetricsCollector("http://localhost:9090")

(* ------------------------ inject: request thread ---------------------- *)

\* lines 113-131: get_json, validate_chaos_input, the bounds checks of inject
inject_receive(r, d) ==
  /\ reqpc[r] = "idle"
  /\ data' = [data EXCEPT ![r] = d]
  /\ LET v == validate_chaos_input(d)
     IN  IF ~v.ok
           THEN /\ resp' = [resp EXCEPT ![r] = ErrorResponse(400, v.msg)]
                /\ reqpc' = [reqpc EXCEPT ![r] = "done"]
         ELSE IF duration_of(d) < 1 \/ duration_of(d) > 300
           THEN /\ resp' = [resp EXCEPT ![r] =
                     ErrorResponse(400, "Duration must be between 1 and 300 seconds")]
                /\ reqpc' = [reqpc EXCEPT ![r] = "done"]
         ELSE IF ~InList(intensity_of(d), valid_intensities)
           THEN /\ resp' = [resp EXCEPT ![r] =
                     ErrorResponse(400, "Intensity must be low, medium, or high")]
                /\ reqpc' = [reqpc EXCEPT ![r] = "done"]
         ELSE /\ reqpc' = [reqpc EXCEPT ![r] = "create"]
              /\ UNCHANGED resp
  /\ UNCHANGED <<current_metrics, experiment, rows, wpc, wexc, faults, fs,
                 temp_files, wi,
                 timevars, svcvars>>

NewExperiment(r) ==
  ChaosExperiment(scenario_of(data[r]), duration_of(data[r]),
                  intensity_of(data[r]), "json(current_metrics)")

\* lines 136-151, no exception: snapshot, constructor, add, commit
inject_create(r) ==
  /\ reqpc[r] = "create"
  /\ current_metrics' = [current_metrics EXCEPT ![r] = "metrics"]
  /\ LET e == Inserted(NewExperiment(r), Len(rows) + 1)
     IN  /\ experiment' = [experiment EXCEPT ![r] = e]
         /\ rows' = Append(rows, e)
  /\ reqpc' = [reqpc EXCEPT ![r] = "dispatch"]
  /\ UNCHANGED <<data, resp, wpc, wexc, faults, fs, temp_files, wi,
                 timevars, svcvars>>

\* lines 136-140 raise (a psutil read fails): line 154 logs, experiment is None
inject_snapshot_fails(r) ==
  /\ reqpc[r] = "create"
  /\ faults < MaxFaults
  /\ faults' = faults + 1
  /\ current_metrics' = [current_metrics EXCEPT ![r] = "raised"]
  /\ reqpc' = [reqpc EXCEPT ![r] = "dispatch"]
  /\ UNCHANGED <<data, resp, experiment, rows, wpc, wexc, fs, temp_files, wi,
                 timevars, svcvars>>

\* inject_add_fails answering 500 instead of going on
inject_add_fails_aborts(r) ==
  /\ reqpc[r] = "create"
  /\ faults < MaxFaults
  /\ faults' = faults + 1
  /\ current_metrics' = [current_metrics EXCEPT ![r] = "metrics"]
  /\ experiment' = [experiment EXCEPT ![r] = NewExperiment(r)]
  /\ resp' = [resp EXCEPT ![r] = ErrorResponse(500, "Internal server error")]
  /\ reqpc' = [reqpc EXCEPT ![r] = "done"]
  /\ UNCHANGED <<data, rows, wpc, wexc, fs, temp_files, wi,
                 timevars, svcvars>>

\* line 150 raises: experiment is bound to the object, which is in no session
inject_add_fails(r) ==
  /\ reqpc[r] = "create"
  /\ faults < MaxFaults
  /\ faults' = faults + 1
  /\ current_metrics' = [current_metrics EXCEPT ![r] = "metrics"]
  /\ experiment' = [experiment EXCEPT ![r] = NewExperiment(r)]
  /\ reqpc' = [reqpc EXCEPT ![r] = "dispatch"]
  /\ UNCHANGED <<data, resp, rows, wpc, wexc, fs, temp_files, wi,
                 timevars, svcvars>>

\* line 151 raises: the object stays pending, no row is inserted
inject_create_commit_fails(r) ==
  /\ reqpc[r] = "create"
  /\ faults < MaxFaults
  /\ faults' = faults + 1
  /\ current_metrics' = [current_metrics EXCEPT ![r] = "metrics"]
  /\ experiment' = [experiment EXCEPT ![r] = NewExperiment(r)]
  /\ reqpc' = [reqpc EXCEPT ![r] = "dispatch"]
  /\ UNCHANGED <<data, resp, rows, wpc, wexc, fs, temp_files, wi,
                 timevars, svcvars>>

\* inject_dispatch starting a worker only when no other worker is running
inject_dispatch_capped(r) ==
  /\ reqpc[r] = "dispatch"
  /\ \A q \in Requests \ { r } : wpc[q] # "running"
  /\ wpc' = [wpc EXCEPT ![r] = "running"]
  /\ reqpc' = [reqpc EXCEPT ![r] = "check"]
  /\ UNCHANGED <<data, resp, current_metrics, experiment, rows, wexc, faults,
                 fs, temp_files, wi,
                 timevars, svcvars>>

\* lines 158-401: the counters, then threading.Thread(target=<worker>).start()
inject_dispatch(r) ==
  /\ reqpc[r] = "dispatch"
  /\ wpc' = [wpc EXCEPT ![r] = "running"]
  /\ reqpc' = [reqpc EXCEPT ![r] = "check"]
  /\ UNCHANGED <<data, resp, current_metrics, experiment, rows, wexc, faults,
                 fs, temp_files, wi,
                 timevars, svcvars>>

\* line 404: if experiment and not experiment.error_message
inject_check(r) ==
  /\ reqpc[r] = "check"
  /\ reqpc' = [reqpc EXCEPT ![r] =
       IF experiment[r].obj /\ ~Truthy(experiment[r].error_message)
         THEN "set_completed" ELSE "return"]
  /\ UNCHANGED <<data, resp, current_metrics, experiment, rows, wpc, wexc,
                 faults, fs, temp_files, wi,
                 timevars, svcvars>>

\* line 406
inject_set_completed(r) ==
  /\ reqpc[r] = "set_completed"
  /\ experiment' = [experiment EXCEPT ![r].status = "completed"]
  /\ reqpc' = [reqpc EXCEPT ![r] = "set_end_time"]
  /\ UNCHANGED <<data, resp, current_metrics, rows, wpc, wexc, faults, fs,
                 temp_files, wi,
                 timevars, svcvars>>

\* lines 407-408
inject_set_end_time(r) ==
  /\ reqpc[r] = "set_end_time"
  /\ experiment' = [experiment EXCEPT ![r].end_time = "utcnow",
                                      ![r].result = "json(result)"]
  /\ reqpc' = [reqpc EXCEPT ![r] = "commit"]
  /\ UNCHANGED <<data, resp, current_metrics, rows, wpc, wexc, faults, fs,
                 temp_files, wi,
                 timevars, svcvars>>

\* a commit that writes the objects of every request, not only its own
CommitEveryObject(r) ==
  rows' = [ i \in 1..Len(rows) |->
              IF \E q \in Requests : experiment[q].id = i
                THEN experiment[CHOOSE q \in Requests : experiment[q].id = i]
                ELSE rows[i] ]

\* db.session.commit() of the thread of request r: the UPDATE of its row.
\* An object that never got a row (add or first commit failed) writes nothing.
Commit(r) ==
  IF experiment[r].id > 0
    THEN rows' = [rows EXCEPT ![experiment[r].id] = experiment[r]]
    ELSE UNCHANGED rows

\* line 409
inject_commit(r) ==
  /\ reqpc[r] = "commit"
  /\ Commit(r)
  /\ reqpc' = [reqpc EXCEPT ![r] = "return"]
  /\ UNCHANGED <<data, resp, current_metrics, experiment, wpc, wexc, faults,
                 fs, temp_files, wi,
                 timevars, svcvars>>

\* line 409 raises, lines 410-411 log
inject_commit_fails(r) ==
  /\ reqpc[r] = "commit"
  /\ faults < MaxFaults
  /\ faults' = faults + 1
  /\ reqpc' = [reqpc EXCEPT ![r] = "return"]
  /\ UNCHANGED <<data, resp, current_metrics, experiment, rows, wpc, wexc,
                 fs, temp_files, wi,
                 timevars, svcvars>>

\* inject_return joining the worker before it answers
inject_return_waits(r) ==
  /\ reqpc[r] = "return"
  /\ wpc[r] = "done"
  /\ resp' = [resp EXCEPT ![r] =
       Acknowledgement(scenario_of(data[r]), duration_of(data[r]),
                       intensity_of(data[r]))]
  /\ reqpc' = [reqpc EXCEPT ![r] = "done"]
  /\ UNCHANGED <<data, current_metrics, experiment, rows, wpc, wexc, faults,
                 fs, temp_files, wi,
                 timevars, svcvars>>

\* line 413: return jsonify(result)
inject_return(r) ==
  /\ reqpc[r] = "return"
  /\ resp' = [resp EXCEPT ![r] =
       Acknowledgement(scenario_of(data[r]), duration_of(data[r]),
                       intensity_of(data[r]))]
  /\ reqpc' = [reqpc EXCEPT ![r] = "done"]
  /\ UNCHANGED <<data, current_metrics, experiment, rows, wpc, wexc, faults,
                 fs, temp_files, wi,
                 timevars, svcvars>>

(* ------------------------------ workers ------------------------------- *)

Worker(r) == WorkerOf(scenario_of(data[r]))

\* the exception classes the except clauses of a worker tell apart
ExceptionsOf(worker) ==
  CASE worker = "mem_stress"  -> { "MemoryError", "Exception" }
    [] worker = "disk_stress" -> { "PermissionError", "OSError", "Exception" }
    [] OTHER                  -> { "Exception" }

\* the error_message the matching except clause assigns
ErrorMessage(worker, exc) ==
  CASE worker = "mem_stress" /\ exc = "MemoryError"       -> "Hit memory limits: str(e)"
    [] worker = "disk_stress" /\ exc = "PermissionError"  -> "Permission denied: str(e)"
    [] worker = "disk_stress" /\ exc = "OSError"          -> "OS error: str(e)"
    [] OTHER                                              -> "str(e)"

\* the try body of a worker other than disk_stress runs to its end and logs
worker_completes(r) ==
  /\ wpc[r] = "running"
  /\ Worker(r) # "disk_stress"
  /\ wpc' = [wpc EXCEPT ![r] = "done"]
  /\ UNCHANGED <<data, reqpc, resp, current_metrics, experiment, rows, wexc,
                 faults, fs, temp_files, wi,
                 timevars, svcvars>>

\* the try body of a worker other than disk_stress raises exc
worker_raises(r, exc) ==
  /\ wpc[r] = "running"
  /\ Worker(r) # "disk_stress"
  /\ exc \in ExceptionsOf(Worker(r))
  /\ faults < MaxFaults
  /\ faults' = faults + 1
  /\ wexc' = [wexc EXCEPT ![r] = exc]
  /\ wpc' = [wpc EXCEPT ![r] = "caught"]
  /\ UNCHANGED <<data, reqpc, resp, current_metrics, experiment, rows, fs,
                 temp_files, wi,
                 timevars, svcvars>>

\* except ...: logger.error; if experiment: experiment.error_message = ...
worker_set_error_message(r) ==
  /\ wpc[r] = "caught"
  /\ IF experiment[r].obj
       THEN /\ experiment' = [experiment EXCEPT ![r].error_message =
                                ErrorMessage(Worker(r), wexc[r])]
            /\ wpc' = [wpc EXCEPT ![r] = "set_failed"]
       ELSE /\ wpc' = [wpc EXCEPT ![r] = "done"]
            /\ UNCHANGED experiment
  /\ UNCHANGED <<data, reqpc, resp, current_metrics, rows, wexc, faults, fs,
                 temp_files, wi,
                 timevars, svcvars>>

\* experiment.status = 'failed'
worker_set_failed(r) ==
  /\ wpc[r] = "set_failed"
  /\ experiment' = [experiment EXCEPT ![r].status = "failed"]
  /\ wpc' = [wpc EXCEPT ![r] = "commit"]
  /\ UNCHANGED <<data, reqpc, resp, current_metrics, rows, wexc, faults, fs,
                 temp_files, wi,
                 timevars, svcvars>>

\* db.session.commit() in the except clause
worker_commit(r) ==
  /\ wpc[r] = "commit"
  /\ Commit(r)
  /\ wpc' = [wpc EXCEPT ![r] = "done"]
  /\ UNCHANGED <<data, reqpc, resp, current_metrics, experiment, wexc, faults,
                 fs, temp_files, wi,
                 timevars, svcvars>>

\* the commit raises: except Exception as db_e logs
worker_commit_fails(r) ==
  /\ wpc[r] = "commit"
  /\ faults < MaxFaults
  /\ faults' = faults + 1
  /\ wpc' = [wpc EXCEPT ![r] = "done"]
  /\ UNCHANGED <<data, reqpc, resp, current_metrics, experiment, rows, wexc,
                 fs, temp_files, wi,
                 timevars, svcvars>>

(* ----------------------------- disk_stress ---------------------------- *)

\* size_mb = {"low": 50, "medium": 100, "high": 200}[intensity]
size_mb(intensity) ==
  CASE intensity = "low"    -> 50
    [] intensity = "medium" -> 100
    [] intensity = "high"   -> 200

\* files of the modelled loop: one per DiskScale files of range(size_mb)
NumFiles(r) == size_mb(intensity_of(data[r])) \div DiskScale

\* the elements of a sequence
Range(seq) == { seq[i] : i \in 1..Len(seq) }

\* lines 239-242, no exception: file wi is written and appended to temp_files
disk_write(r) ==
  /\ wpc[r] = "running"
  /\ Worker(r) = "disk_stress"
  /\ wi[r] < NumFiles(r)
  /\ fs' = fs \cup { wi[r] }
  /\ temp_files' = [temp_files EXCEPT ![r] = Append(@, wi[r])]
  /\ wi' = [wi EXCEPT ![r] = @ + 1]
  /\ UNCHANGED <<data, reqpc, resp, current_metrics, experiment, rows, wpc,
                 wexc, faults,
                 timevars, svcvars>>

\* line 240 raises (open): no file wi; the loop is left for the except clause
disk_open_fails(r, exc) ==
  /\ wpc[r] = "running"
  /\ Worker(r) = "disk_stress"
  /\ wi[r] < NumFiles(r)
  /\ exc \in ExceptionsOf("disk_stress")
  /\ faults < MaxFaults
  /\ faults' = faults + 1
  /\ wexc' = [wexc EXCEPT ![r] = exc]
  /\ wpc' = [wpc EXCEPT ![r] = "caught"]
  /\ UNCHANGED <<data, reqpc, resp, current_metrics, experiment, rows, fs,
                 temp_files, wi,
                 timevars, svcvars>>

\* line 241 raises (write): open has created file wi, which is not appended
disk_write_fails(r, exc) ==
  /\ wpc[r] = "running"
  /\ Worker(r) = "disk_stress"
  /\ wi[r] < NumFiles(r)
  /\ exc \in ExceptionsOf("disk_stress")
  /\ faults < MaxFaults
  /\ faults' = faults + 1
  /\ fs' = fs \cup { wi[r] }
  /\ wexc' = [wexc EXCEPT ![r] = exc]
  /\ wpc' = [wpc EXCEPT ![r] = "caught"]
  /\ UNCHANGED <<data, reqpc, resp, current_metrics, experiment, rows,
                 temp_files, wi,
                 timevars, svcvars>>

\* line 243: the loop is over, time.sleep(duration)
disk_sleep(r) ==
  /\ wpc[r] = "running"
  /\ Worker(r) = "disk_stress"
  /\ wi[r] = NumFiles(r)
  /\ wpc' = [wpc EXCEPT ![r] = "cleanup"]
  /\ wi' = [wi EXCEPT ![r] = 0]
  /\ UNCHANGED <<data, reqpc, resp, current_metrics, experiment, rows, wexc,
                 faults, fs, temp_files,
                 timevars, svcvars>>

\* lines 245-247: os.remove(f) removes the file
disk_remove(r) ==
  /\ wpc[r] = "cleanup"
  /\ wi[r] < Len(temp_files[r])
  /\ temp_files[r][wi[r] + 1] \in fs
  /\ fs' = fs \ { temp_files[r][wi[r] + 1] }
  /\ wi' = [wi EXCEPT ![r] = @ + 1]
  /\ removed' = [removed EXCEPT ![r] = Append(@, "removed")]
  /\ UNCHANGED <<data, reqpc, resp, current_metrics, experiment, rows, wpc,
                 wexc, faults, temp_files,
                 timevars, othervars>>

\* lines 248-249: the file is gone, os.remove raises FileNotFoundError: pass
disk_remove_missing(r) ==
  /\ wpc[r] = "cleanup"
  /\ wi[r] < Len(temp_files[r])
  /\ temp_files[r][wi[r] + 1] \notin fs
  /\ wi' = [wi EXCEPT ![r] = @ + 1]
  /\ removed' = [removed EXCEPT ![r] = Append(@, "FileNotFoundError")]
  /\ UNCHANGED <<data, reqpc, resp, current_metrics, experiment, rows, wpc,
                 wexc, faults, fs, temp_files,
                 timevars, othervars>>

\* a cleanup loop that a failed os.remove ends: the exception reaches the
\* except clause of the worker
disk_remove_fails_aborts(r) ==
  /\ wpc[r] = "cleanup"
  /\ wi[r] < Len(temp_files[r])
  /\ faults < MaxFaults
  /\ faults' = faults + 1
  /\ removed' = [removed EXCEPT ![r] = Append(@, "OSError")]
  /\ wexc' = [wexc EXCEPT ![r] = "OSError"]
  /\ wpc' = [wpc EXCEPT ![r] = "caught"]
  /\ UNCHANGED <<data, reqpc, resp, current_metrics, experiment, rows, fs,
                 temp_files, wi,
                 timevars, othervars>>

\* lines 250-251: os.remove raises another exception, which is logged
disk_remove_fails(r) ==
  /\ wpc[r] = "cleanup"
  /\ wi[r] < Len(temp_files[r])
  /\ faults < MaxFaults
  /\ faults' = faults + 1
  /\ wi' = [wi EXCEPT ![r] = @ + 1]
  /\ removed' = [removed EXCEPT ![r] = Append(@, "OSError")]
  /\ UNCHANGED <<data, reqpc, resp, current_metrics, experiment, rows, wpc,
                 wexc, fs, temp_files,
                 timevars, othervars>>

\* line 252: the cleanup loop is over, the worker logs and ends
disk_completes(r) ==
  /\ wpc[r] = "cleanup"
  /\ wi[r] = Len(temp_files[r])
  /\ wpc' = [wpc EXCEPT ![r] = "done"]
  /\ UNCHANGED <<data, reqpc, resp, current_metrics, experiment, rows, wexc,
                 faults, fs, temp_files, wi,
                 timevars, svcvars>>

(* ---------------------------- timed workers --------------------------- *)

\* time.sleep and time.time count seconds; the model counts milliseconds
Seconds(n) == n * 1000

Min(a, b) == IF a <= b THEN a ELSE b

\* thread_count = {"low": 2, "medium": 4, "high": 8}[intensity]
thread_count(intensity) ==
  CASE intensity = "low"    -> 2
    [] intensity = "medium" -> 4
    [] intensity = "high"   -> 8

\* multiplier = {"low": 5000, "medium": 10000, "high": 20000}[intensity]
multiplier(intensity) ==
  CASE intensity = "low"    -> 5000
    [] intensity = "medium" -> 10000
    [] intensity = "high"   -> 20000

\* delay_ms = {"low": 100, "medium": 500, "high": 1000}[intensity]
delay_ms(intensity) ==
  CASE intensity = "low"    -> 100
    [] intensity = "medium" -> 500
    [] intensity = "high"   -> 1000

\* query_delay = {"low": 0.1, "medium": 0.5, "high": 2.0}[intensity], in ms
query_delay(intensity) ==
  CASE intensity = "low"    -> 100
    [] intensity = "medium" -> 500
    [] intensity = "high"   -> 2000

\* timeout_duration = {"low": 5, "medium": 10, "high": 30}[intensity]
timeout_duration(intensity) ==
  CASE intensity = "low"    -> 5
    [] intensity = "medium" -> 10
    [] intensity = "high"   -> 30

\* kill_delay = {"low": 30, "medium": 15, "high": 5}[intensity]
kill_delay(intensity) ==
  CASE intensity = "low"    -> 30
    [] intensity = "medium" -> 15
    [] intensity = "high"   -> 5

\* impact_duration = {"low": duration * 0.5, "medium": duration * 0.75,
\* "high": duration}[intensity], in ms
impact_duration(duration, intensity) ==
  CASE intensity = "low"    -> duration * 500
    [] intensity = "medium" -> duration * 750
    [] intensity = "high"   -> duration * 1000

\* the workers that loop on time.time() < end_time around one time.sleep
LoopWorkers == { "network_delay", "db_slowdown" }

\* the argument of the time.sleep in the loop, in ms
LoopSleep(worker, intensity) ==
  IF worker = "network_delay" THEN delay_ms(intensity)
                              ELSE query_delay(intensity)

\* the workers whose body is one time.sleep
SleepWorkers == { "timeout_simulation", "process_chaos", "generic_chaos" }

\* the argument of that time.sleep, in ms
SleepOnce(worker, duration, intensity) ==
  CASE worker = "timeout_simulation" ->
         Seconds(Min(timeout_duration(intensity), duration))
    [] worker = "process_chaos" ->
         Seconds(Min(kill_delay(intensity), duration))
    [] worker = "generic_chaos" -> impact_duration(duration, intensity)

\* A time.sleep(x) is one step that moves the clock by x: SpecTimed has one
\* worker, and nothing else moves the clock while it sleeps.

\* cpu_stress, lines 171-178: end_time, thread_count, the burn threads started
cpu_start(r) ==
  /\ wpc[r] = "running"
  /\ Worker(r) = "cpu_stress"
  /\ end_time' = [end_time EXCEPT ![r] = now + Seconds(duration_of(data[r]))]
  /\ burning' = [burning EXCEPT ![r] = thread_count(intensity_of(data[r]))]
  /\ wpc' = [wpc EXCEPT ![r] = "join"]
  /\ UNCHANGED <<data, reqpc, resp, current_metrics, experiment, rows, wexc,
                 faults, fs, temp_files, wi, now, svcvars>>

\* a clock that stands still while the burn threads spin
clock_advances_stuck(r) ==
  /\ burning[r] > 0
  /\ now < end_time[r]
  /\ now' = now
  /\ UNCHANGED <<injectvars, end_time, burning, svcvars>>

\* time passes while the burn threads spin on time.time() < end_time
clock_advances(r) ==
  /\ burning[r] > 0
  /\ now < end_time[r]
  /\ now' = end_time[r]
  /\ UNCHANGED <<injectvars, end_time, burning, svcvars>>

\* burn, lines 174-175: time.time() < end_time is false, the thread ends
burn_exit(r) ==
  /\ burning[r] > 0
  /\ ~(now < end_time[r])
  /\ burning' = [burning EXCEPT ![r] = @ - 1]
  /\ UNCHANGED <<injectvars, now, end_time, svcvars>>

\* a cpu_stress that logs its completion without joining its threads
cpu_join_without_waiting(r) ==
  /\ wpc[r] = "join"
  /\ wpc' = [wpc EXCEPT ![r] = "done"]
  /\ UNCHANGED <<data, reqpc, resp, current_metrics, experiment, rows, wexc,
                 faults, fs, temp_files, wi, timevars, svcvars>>

\* cpu_stress, lines 179-181: every join has returned, the worker logs
cpu_join(r) ==
  /\ wpc[r] = "join"
  /\ burning[r] = 0
  /\ wpc' = [wpc EXCEPT ![r] = "done"]
  /\ UNCHANGED <<data, reqpc, resp, current_metrics, experiment, rows, wexc,
                 faults, fs, temp_files, wi, timevars, svcvars>>

\* mem_stress, lines 200-202: the next iterations of the loop, at most
\* AllocBatch of them in one step, each appending 1 KB and sleeping 1 ms
mem_alloc(r) ==
  /\ wpc[r] = "running"
  /\ Worker(r) = "mem_stress"
  /\ LET range == duration_of(data[r]) * multiplier(intensity_of(data[r]))
         n     == Min(AllocBatch, range - wi[r])
     IN  /\ wi[r] < range
         /\ wi' = [wi EXCEPT ![r] = @ + n]
         /\ now' = now + n * 1
  /\ UNCHANGED <<data, reqpc, resp, current_metrics, experiment, rows, wpc,
                 wexc, faults, fs, temp_files, end_time, burning, svcvars>>

\* mem_stress, lines 203-205: time.sleep(duration), del leaker, the log
mem_hold(r) ==
  /\ wpc[r] = "running"
  /\ Worker(r) = "mem_stress"
  /\ ~(wi[r] < duration_of(data[r]) * multiplier(intensity_of(data[r])))
  /\ now' = now + Seconds(duration_of(data[r]))
  /\ wpc' = [wpc EXCEPT ![r] = "done"]
  /\ UNCHANGED <<data, reqpc, resp, current_metrics, experiment, rows, wexc,
                 faults, fs, temp_files, wi, end_time, burning, svcvars>>

\* network_delay line 290, db_slowdown line 352: end_time = time.time() + duration
loop_start(r) ==
  /\ wpc[r] = "running"
  /\ Worker(r) \in LoopWorkers
  /\ end_time' = [end_time EXCEPT ![r] = now + Seconds(duration_of(data[r]))]
  /\ wpc' = [wpc EXCEPT ![r] = "loop"]
  /\ UNCHANGED <<data, reqpc, resp, current_metrics, experiment, rows, wexc,
                 faults, fs, temp_files, wi, now, burning, svcvars>>

\* lines 291-292, 353-354: time.time() < end_time holds, time.sleep(delay)
loop_sleep(r) ==
  /\ wpc[r] = "loop"
  /\ now < end_time[r]
  /\ now' = now + LoopSleep(Worker(r), intensity_of(data[r]))
  /\ UNCHANGED <<injectvars, end_time, burning, svcvars>>

\* lines 291-293, 353-355: time.time() < end_time is false, the worker logs
loop_exit(r) ==
  /\ wpc[r] = "loop"
  /\ ~(now < end_time[r])
  /\ wpc' = [wpc EXCEPT ![r] = "done"]
  /\ UNCHANGED <<data, reqpc, resp, current_metrics, experiment, rows, wexc,
                 faults, fs, temp_files, wi, timevars, svcvars>>

\* timeout_simulation, process_chaos, generic_chaos: the one time.sleep, the log
sleep_once(r) ==
  /\ wpc[r] = "running"
  /\ Worker(r) \in SleepWorkers
  /\ now' = now + SleepOnce(Worker(r), duration_of(data[r]),
                            intensity_of(data[r]))
  /\ wpc' = [wpc EXCEPT ![r] = "done"]
  /\ UNCHANGED <<data, reqpc, resp, current_metrics, experiment, rows, wexc,
                 faults, fs, temp_files, wi, end_time, burning, svcvars>>

(* ---------------------------- GET /scenarios -------------------------- *)

\* a handler that lists the scenarios of the recorded experiments
scenarios_from_ledger ==
  /\ Len(calls) < MaxCalls
  /\ calls' = Append(calls, [code |-> 200,
                             scenarios |-> [i \in 1..Len(rows) |-> rows[i].scenario]])
  /\ UNCHANGED <<injectvars, timevars, removed, libvars, riskvars, statusvars, agent, collector>>

\* lines 435-456: return jsonify({"scenarios": available})
scenarios ==
  /\ Len(calls) < MaxCalls
  /\ calls' = Append(calls, [code |-> 200, scenarios |-> available])
  /\ UNCHANGED <<injectvars, timevars, removed, libvars, riskvars, statusvars, agent, collector>>

(* ------------------ NLPLogAnalyzer: failure likelihood ---------------- *)
\* Risks are floats with two decimals in the source; the model counts
\* hundredths, so 0.9 is 90 and the comparison > 0.7 is > 70.

\* current_metrics.get(key, 0)
GetPercent(v) == IF v.kind = "missing" THEN 0 ELSE v.val

\* _assess_cpu_risk with the results of two branches exchanged
assess_cpu_risk_swapped(cpu_percent) ==
  IF cpu_percent > 90 THEN 70
  ELSE IF cpu_percent > 80 THEN 90
  ELSE IF cpu_percent > 70 THEN 50
  ELSE IF cpu_percent > 60 THEN 30
  ELSE 10

\* _assess_cpu_risk, lines 452-463
assess_cpu_risk(cpu_percent) ==
  IF cpu_percent > 90 THEN 90
  ELSE IF cpu_percent > 80 THEN 70
  ELSE IF cpu_percent > 70 THEN 50
  ELSE IF cpu_percent > 60 THEN 30
  ELSE 10

\* _assess_memory_risk, lines 465-476
assess_memory_risk(memory_percent) ==
  IF memory_percent > 95 THEN 95
  ELSE IF memory_percent > 85 THEN 80
  ELSE IF memory_percent > 75 THEN 60
  ELSE IF memory_percent > 65 THEN 40
  ELSE 10

\* _assess_disk_risk, lines 478-489
assess_disk_risk(disk_percent) ==
  IF disk_percent > 95 THEN 90
  ELSE IF disk_percent > 90 THEN 70
  ELSE IF disk_percent > 80 THEN 50
  ELSE IF disk_percent > 70 THEN 30
  ELSE 10

\* max(risks.values())
Max3(a, b, c) ==
  IF a >= b /\ a >= c THEN a ELSE IF b >= c THEN b ELSE c

\* lines 243-248 with >= in place of >
overall_risk_inclusive(overall_risk_score) ==
  IF overall_risk_score >= 70 THEN "high"
  ELSE IF overall_risk_score >= 40 THEN "medium"
  ELSE "low"

\* lines 243-248
overall_risk(overall_risk_score) ==
  IF overall_risk_score > 70 THEN "high"
  ELSE IF overall_risk_score > 40 THEN "medium"
  ELSE "low"

\* lines 251-256 with the disk test first
recommended_preventive_chaos_disk_first(cpu_risk, memory_risk, disk_risk) ==
  LET l0 == << >>
      l1 == IF disk_risk > 50 THEN Append(l0, "disk_fill") ELSE l0
      l2 == IF cpu_risk > 50 THEN Append(l1, "cpu_spike") ELSE l1
      l3 == IF memory_risk > 50 THEN Append(l2, "memory_leak") ELSE l2
  IN  l3

\* lines 224, 251-256: the three conditional appends to the empty list
recommended_preventive_chaos(cpu_risk, memory_risk, disk_risk) ==
  LET l0 == << >>
      l1 == IF cpu_risk > 50 THEN Append(l0, "cpu_spike") ELSE l0
      l2 == IF memory_risk > 50 THEN Append(l1, "memory_leak") ELSE l1
      l3 == IF disk_risk > 50 THEN Append(l2, "disk_fill") ELSE l2
  IN  l3

\* predict_failure_likelihood, lines 220-258; historical_patterns is not read
predict_failure_likelihood(m) ==
  LET cpu_risk    == assess_cpu_risk(GetPercent(m.cpu_percent))
      memory_risk == assess_memory_risk(GetPercent(m.memory_percent))
      disk_risk   == assess_disk_risk(GetPercent(m.disk_percent))
      overall_risk_score == Max3(cpu_risk, memory_risk, disk_risk)
  IN  [ called         |-> TRUE,
        overall_risk   |-> overall_risk(overall_risk_score),
        risk_score     |-> overall_risk_score,
        specific_risks |-> [ cpu_failure    |-> cpu_risk,
                             memory_failure |-> memory_risk,
                             disk_failure   |-> disk_risk ],
        recommended_preventive_chaos |->
          recommended_preventive_chaos(cpu_risk, memory_risk, disk_risk) ]

\* the percentages tried: 0, 50, 100, every threshold of the three
\* _assess functions and the integer just above it
Thresholds == { 60, 65, 70, 75, 80, 85, 90, 95 }

PercentInputs == { 0, 50, 100 } \cup Thresholds \cup { t + 1 : t \in Thresholds }

\* a metrics dict: each key holds a percentage or is absent
MetricsInputs ==
  [ cpu_percent    : { JInt(p) : p \in PercentInputs } \cup { JMissing },
    memory_percent : { JInt(p) : p \in PercentInputs } \cup { JMissing },
    disk_percent   : { JInt(p) : p \in PercentInputs } \cup { JMissing } ]

\* a caller calls predict_failure_likelihood(risk_metrics, ...)
predict ==
  /\ risk_metrics # NoMetrics
  /\ prediction # predict_failure_likelihood(risk_metrics)
  /\ prediction' = predict_failure_likelihood(risk_metrics)
  /\ UNCHANGED <<injectvars, timevars, removed, libvars, calls, statusvars, agent, collector,
                 risk_metrics>>

\* between two calls one utilization percentage rises, the other two stay
metric_rises(key, p) ==
  /\ prediction = predict_failure_likelihood(risk_metrics)
  /\ p > GetPercent(risk_metrics[key])
  /\ risk_metrics' = [risk_metrics EXCEPT ![key] = JInt(p)]
  /\ UNCHANGED <<injectvars, timevars, removed, libvars, calls, statusvars, agent, collector,
                 prediction>>

(* --------------------------- GET /system-status ----------------------- *)

\* what the psutil reads of one call can do: return ("ok"), return a falsy
\* value where the code tests for one ("falsy"), or raise an exception
ReadOutcomes ==
  [ cpu       : { "ok", "falsy", "Exception" },
    memory    : { "ok", "Exception" },
    disk      : { "ok", "PermissionError", "FileNotFoundError", "OSError" },
    network   : { "ok", "falsy", "Exception" },
    processes : { "ok", "NoSuchProcess", "AccessDenied", "Exception" } ]

Raised(outcome) == outcome \notin { None, "ok", "falsy" }

\* lines 549-551: jsonify({"error": str(e), "status": "error"}), 500
StatusError ==
  [ code |-> 500, status |-> "error", cpu |-> None, memory |-> None,
    disk |-> None, network |-> None, processes |-> None ]

\* lines 508-515: except (PermissionError, FileNotFoundError)
disk_info(outcome) ==
  IF outcome \in { "PermissionError", "FileNotFoundError" } THEN "error"
  ELSE "info"

\* lines 518-522: except Exception; {} when net_io_counters() is falsy
network_info(outcome) ==
  CASE outcome = "ok"    -> "info"
    [] outcome = "falsy" -> "{}"
    [] OTHER             -> "error"

\* lines 525-537: except (psutil.NoSuchProcess, psutil.AccessDenied)
process_info(outcome) ==
  IF outcome \in { "NoSuchProcess", "AccessDenied" } THEN "error" ELSE "info"

\* system_status, lines 497-551: the response for the read outcomes o; an
\* exception no inner except clause names reaches the outer one
StatusResponse(o) ==
  IF \/ Raised(o.cpu)
     \/ Raised(o.memory)
     \/ o.disk = "OSError"
     \/ o.processes = "Exception"
    THEN StatusError
    ELSE [ code      |-> 200,
           status    |-> "healthy",
           cpu       |-> "info",
           memory    |-> "info",
           disk      |-> disk_info(o.disk),
           network   |-> network_info(o.network),
           processes |-> process_info(o.processes) ]

\* one GET /system-status
system_status(o) ==
  /\ reads' = o
  /\ status_resp' = StatusResponse(o)
  /\ UNCHANGED <<injectvars, timevars, removed, libvars, calls, riskvars, agent, collector>>

(* --------------------------- RemediationAgent ------------------------- *)

\* _record_remediation keeping the first max_history records
record_remediation_keeps_oldest(a) ==
  LET history == Append(a.remediation_history, [timestamp |-> a.recorded + 1])
  IN  [a EXCEPT !.recorded = @ + 1,
                !.remediation_history =
                   IF Len(history) > max_history
                     THEN SubSeq(history, 1, max_history)
                     ELSE history]

\* _record_remediation, lines 361-378: append, then keep the slice
\* [-max_history:] when the list is longer than max_history
record_remediation(a) ==
  LET history == Append(a.remediation_history, [timestamp |-> a.recorded + 1])
  IN  [a EXCEPT !.recorded = @ + 1,
                !.remediation_history =
                   IF Len(history) > max_history
                     THEN SubSeq(history, Len(history) - max_history + 1,
                                 Len(history))
                     ELSE history]

\* a direct call of agent._record_remediation(...)
call_record_remediation ==
  /\ agent.recorded < MaxRecorded
  /\ agent' = record_remediation(agent)
  /\ UNCHANGED <<injectvars, timevars, removed, libvars, calls, riskvars, statusvars, collector>>

\* execute_remediation, lines 112-171. arg is the kind of assessment_result;
\* outcome is what the strategy did: returned True, returned False, or an
\* exception reached the except clause of line 162
execute_remediation(arg, outcome) ==
  /\ agent.recorded < MaxRecorded
  /\ IF arg \in { "None", "other" }
       THEN agent' = [agent EXCEPT !.returned = "False"]
       ELSE LET state == CASE outcome = "True"  -> "healthy"
                           [] outcome = "False" -> "degraded"
                           [] OTHER             -> "error"
                moved == [agent EXCEPT !.current_state = state]
            IN  agent' = [record_remediation(moved) EXCEPT
                            !.returned = IF outcome = "True" THEN "True"
                                                             ELSE "False"]
  /\ UNCHANGED <<injectvars, timevars, removed, libvars, calls, riskvars, statusvars, collector>>

(* ------------------- MetricsCollector.send_to_prometheus -------------- *)

\* max_retries = 3
max_retries == 3

\* the metrics dicts passed: None or {}, a dict with every required section,
\* one without 'memory' and 'collection', one with an empty section
MetricsArgs == { "falsy", "complete", "missing_section", "empty_section" }

\* _validate_metrics, lines 277-298
validate_metrics(metrics) == metrics = "complete"

\* what one requests.post can do: a response with a status code, a
\* requests.exceptions.RequestException, another exception
PostOutcomes == { "200", "500", "503", "RequestException", "Exception" }

\* lines 188-193: the call, the test of metrics, max_retries and retry_count
send_to_prometheus(metrics) ==
  /\ collector.pc = "idle"
  /\ collector' =
       IF metrics = "falsy"
         THEN [collector EXCEPT !.metrics = metrics, !.pc = "done",
                                !.returned = "False"]
         ELSE [collector EXCEPT !.metrics = metrics, !.pc = "loop",
                                !.retry_count = 0]
  /\ UNCHANGED <<injectvars, timevars, removed, libvars, calls, riskvars, statusvars, agent>>

\* lines 195-222, no pushgateway in the URL: validate and return
send_validates ==
  /\ collector.pc = "loop"
  /\ collector.retry_count < max_retries
  /\ ~HasPushgateway(collector.prometheus_url)
  /\ collector' =
       [collector EXCEPT !.pc = "done",
                         !.returned = IF validate_metrics(collector.metrics)
                                        THEN "True" ELSE "False"]
  /\ UNCHANGED <<injectvars, timevars, removed, libvars, calls, riskvars, statusvars, agent>>

\* lines 195-231, pushgateway: one pass of the loop around requests.post.
\* 200 returns True; another status only logs; a RequestException counts a
\* retry (and sleeps 2 ** retry_count); another exception breaks to line 233
send_posts(outcome) ==
  /\ collector.pc = "loop"
  /\ collector.retry_count < max_retries
  /\ HasPushgateway(collector.prometheus_url)
  /\ LET posted == [collector EXCEPT !.attempts = Min(@ + 1, MaxAttempts),
                                     !.answered = outcome]
     IN  collector' =
           CASE outcome = "200" ->
                  [posted EXCEPT !.pc = "done", !.returned = "True"]
             [] outcome = "RequestException" ->
                  [posted EXCEPT !.retry_count = @ + 1]
             [] outcome = "Exception" ->
                  [posted EXCEPT !.pc = "done", !.returned = "False"]
             [] OTHER -> posted
  /\ UNCHANGED <<injectvars, timevars, removed, libvars, calls, riskvars, statusvars, agent>>

\* lines 195, 233-234: retry_count < max_retries is false, return False
send_gives_up ==
  /\ collector.pc = "loop"
  /\ ~(collector.retry_count < max_retries)
  /\ collector' = [collector EXCEPT !.pc = "done", !.returned = "False"]
  /\ UNCHANGED <<injectvars, timevars, removed, libvars, calls, riskvars, statusvars, agent>>

(* ------------------- MetricsCollector.collect_metrics ----------------- *)

\* what the psutil reads of one section can do: return, return a falsy value
\* where the code tests for one, raise an exception of a class the except
\* clause of the section names, raise one of another class
SectionOutcomes ==
  [ cpu       : { "ok", "psutil.Error", "Exception" },
    memory    : { "ok", "AttributeError", "PermissionError" },
    disk      : { "ok", "FileNotFoundError", "OSError" },
    network   : { "ok", "falsy", "psutil.Error", "Exception" },
    processes : { "ok", "Exception" },
    system    : { "ok", "psutil.Error" } ]

\* the exception classes the except clause of a section names
\* (lines 44, 66, 92, 109, 125, 150)
Caught(section) ==
  CASE section \in { "cpu", "memory" } -> { "psutil.Error", "AttributeError" }
    [] section = "disk" ->
         { "psutil.Error", "FileNotFoundError", "PermissionError" }
    [] OTHER -> { "psutil.Error" }

\* the read of a section raises past its own except clause
Escapes(section, outcome) == Raised(outcome) /\ outcome \notin Caught(section)

\* the sections before the first one whose exception escapes are read, that
\* one is read, the later ones are not
ReadsDone(o) ==
  [ s \in Range(Sections) |->
      IF \E i, j \in 1..Len(Sections) :
           i < j /\ Sections[j] = s /\ Escapes(Sections[i], o[Sections[i]])
        THEN None ELSE o[s] ]

\* metrics[section] after the try block of the section, lines 34-152
SectionEntry(section, outcome) ==
  CASE outcome = "ok"    -> "data"
    [] outcome = "falsy" -> "absent"
    [] OTHER             -> "error"

\* lines 168-184: the fallback dict of the outer except clause
Fallback ==
  [ cpu |-> "error", memory |-> "error", swap |-> "absent", disk |-> "absent",
    network |-> "absent", processes |-> "absent", system |-> "absent",
    collection |-> "error" ]

\* collect_metrics, lines 28-184, under the read outcomes o
collect_metrics(o) ==
  /\ IF \E i \in 1..Len(Sections) : Escapes(Sections[i], o[Sections[i]])
       THEN /\ collector.collection_errors < MaxCollectionErrors
            /\ collector' = [collector EXCEPT !.collection_errors = @ + 1,
                                              !.psutil = ReadsDone(o),
                                              !.collected = Fallback]
       ELSE collector' =
              [collector EXCEPT
                 !.collection_errors = 0,
                 !.psutil = ReadsDone(o),
                 !.collected =
                    [ cpu        |-> SectionEntry("cpu", o.cpu),
                      memory     |-> SectionEntry("memory", o.memory),
                      swap       |-> SectionEntry("memory", o.memory),
                      disk       |-> SectionEntry("disk", o.disk),
                      network    |-> SectionEntry("network", o.network),
                      processes  |-> SectionEntry("processes", o.processes),
                      system     |-> SectionEntry("system", o.system),
                      collection |-> "data" ]]
  /\ UNCHANGED <<injectvars, timevars, removed, libvars, calls, riskvars, statusvars, agent>>

(* ------------------ ScenarioGenerator.evolve_scenarios ---------------- *)

\* the longest scenario list handed to evolve_scenarios
MaxEvolveLen == 52

\* n copies of x
Repeat(x, n) == [ i \in 1..n |-> x ]

\* elements the loop of evolve_scenarios skips: a dict without 'name', a
\* string or None
Malformed == { Scenario(TRUE, FALSE, "d"), Scenario(FALSE, FALSE, "") }

\* the argument scenarios: omitted, not a list, or a list of well-formed
\* elements before or after malformed ones
ScenarioArgs ==
  { [ type |-> None, items |-> << >> ], [ type |-> "str", items |-> << >> ] }
  \cup { [ type |-> "list", items |-> l ] :
           l \in { Repeat(bad, a) \o Repeat(Scenario(TRUE, TRUE, "d"), b) :
                     bad \in Malformed,
                     a \in { 0, 1, max_scenarios - 1, max_scenarios, MaxEvolveLen - 1 },
                     b \in { 0, 1, MaxEvolveLen - max_scenarios } }
                \cup { Repeat(Scenario(TRUE, TRUE, "d"), b) \o Repeat(bad, a) :
                     bad \in Malformed,
                     a \in { 1, max_scenarios },
                     b \in { 1, max_scenarios, MaxEvolveLen } } }

\* the argument feedback: omitted, not a dict, or a dict
FeedbackArgs ==
  { [ type |-> t, result |-> None,
      add_network_partition |-> FALSE, add_cpu_spike |-> FALSE ] :
      t \in { None, "str" } }
  \cup [ type : { "dict" }, result : { "success", "failure", "unknown" },
         add_network_partition : BOOLEAN, add_cpu_spike : BOOLEAN ]

\* lines 199-220, the body of the loop for one scenario: the elements it
\* appends to evolved_scenarios
EvolveOne(scenario, feedback_result) ==
  IF ~scenario.isdict \/ ~scenario.name THEN << >>
  ELSE CASE feedback_result = "success" ->
              << [scenario EXCEPT !.details = "d (increased severity)"] >>
         [] feedback_result = "failure" ->
              << [scenario EXCEPT !.details = "d (try alternative failure mode)"] >>
         [] OTHER -> << scenario >>

\* lines 197-224: the loop over scenarios[:max_scenarios]
RECURSIVE EvolveLoop(_, _, _)
EvolveLoop(list, i, feedback_result) ==
  IF i > Min(Len(list), max_scenarios) THEN << >>
  ELSE EvolveOne(list[i], feedback_result) \o EvolveLoop(list, i + 1, feedback_result)

\* lines 231-242: the scenarios the feedback asks to add
Suggested(feedback) ==
  (IF feedback.add_network_partition
     THEN << Scenario(TRUE, TRUE, "Simulate network issues as suggested by feedback") >>
     ELSE << >>)
  \o (IF feedback.add_cpu_spike
        THEN << Scenario(TRUE, TRUE, "Simulate CPU spike as suggested by feedback") >>
        ELSE << >>)

\* what evolve_scenarios returns, lines 159-257
evolve_result(arg, feedback) ==
  LET list     == IF arg.type = "list" THEN arg.items
                  ELSE default_scenarios
      fb       == IF feedback.type = "dict" THEN feedback
                  ELSE [feedback EXCEPT !.result = "unknown"]
      evolved  == EvolveLoop(list, 1, fb.result) \o Suggested(fb)
      limited  == IF Len(evolved) > max_scenarios
                    THEN SubSeq(evolved, 1, max_scenarios) ELSE evolved
  IN  IF limited # << >> THEN limited
      ELSE IF list # << >> THEN list ELSE default_scenarios

\* one call of evolve_scenarios
evolve_scenarios(arg, feedback) ==
  /\ generator' = [ scenarios |-> arg, feedback |-> feedback,
                    called |-> TRUE,
                    returned |-> evolve_result(arg, feedback) ]
  /\ UNCHANGED <<injectvars, timevars, removed, calls, riskvars, statusvars,
                 agent, collector, security>>

(* --------------------------- SecurityManager -------------------------- *)

\* timedelta(minutes=1) and timedelta(hours=1), in ms
Minute == Seconds(60)
Hour == Seconds(3600)

\* requests answered by the decorators in one behaviour
MaxLimited == 3

\* the clock stops here
MaxClock == 60000

\* the header X-API-Key or the argument api_key of a request
ApiKeys == { "missing", "wrong", "valid" }

\* the elements of a list that satisfy req_time > bound, in order
RECURSIVE After(_, _)
After(times, bound) ==
  IF times = << >> THEN << >>
  ELSE (IF Head(times) > bound THEN << Head(times) >> ELSE << >>)
       \o After(Tail(times), bound)

\* _cleanup_rate_limit_storage, lines 80-89: entries older than an hour go,
\* and so do the clients left without an entry
cleanup_rate_limit_storage(storage, current_time) ==
  LET kept == { c \in DOMAIN storage :
                  After(storage[c], current_time - Hour) # << >> }
  IN  [ c \in kept |-> After(storage[c], current_time - Hour) ]

\* an entry of the log
Logged(client_ip, time, code) ==
  [ client_ip |-> client_ip, time |-> time, code |-> code ]

\* require_api_key recording the request in the rate-limit storage before it
\* answers 401
require_api_key_records(r, client_ip, key) ==
  /\ security.frame[r].pc = "idle"
  /\ Len(security.log) < MaxLimited
  /\ IF key = "valid"
       THEN security' =
              [security EXCEPT
                 !.frame[r] = [NoFrame EXCEPT !.pc = "rate_limit",
                                              !.client_ip = client_ip]]
       ELSE security' =
              [security EXCEPT
                 !.rate_limit_storage =
                    [ c \in DOMAIN @ \cup { client_ip } |->
                        IF c = client_ip
                          THEN (IF c \in DOMAIN @ THEN @[c] ELSE << >>)
                               \o << now >>
                          ELSE @[c] ],
                 !.frame[r] = [NoFrame EXCEPT !.pc = "done",
                                              !.client_ip = client_ip,
                                              !.n = Len(security.log) + 1],
                 !.log = Append(@, Logged(client_ip, now, 401))]
  /\ UNCHANGED <<injectvars, timevars, removed, calls, riskvars, statusvars,
                 agent, collector, generator>>

\* require_api_key, lines 21-36: a missing or wrong key is answered 401, a
\* valid one calls the function it decorates (the decorator of rate_limit)
require_api_key(r, client_ip, key) ==
  /\ security.frame[r].pc = "idle"
  /\ Len(security.log) < MaxLimited
  /\ IF key = "valid"
       THEN security' =
              [security EXCEPT
                 !.frame[r] = [NoFrame EXCEPT !.pc = "rate_limit",
                                              !.client_ip = client_ip]]
       ELSE security' =
              [security EXCEPT
                 !.frame[r] = [NoFrame EXCEPT !.pc = "done",
                                              !.client_ip = client_ip,
                                              !.n = Len(security.log) + 1],
                 !.log = Append(@, Logged(client_ip, now, 401))]
  /\ UNCHANGED <<injectvars, timevars, removed, calls, riskvars, statusvars,
                 agent, collector, generator>>

\* rate_limit, lines 43-47: client_ip, current_time = datetime.now(), then
\* _cleanup_rate_limit_storage(current_time)
rate_limit(r) ==
  /\ security.frame[r].pc = "rate_limit"
  /\ security' =
       [security EXCEPT
          !.rate_limit_storage = cleanup_rate_limit_storage(@, now),
          !.frame[r].pc = "append",
          !.frame[r].current_time = now,
          !.frame[r].n = Len(security.log) + 1,
          !.log = Append(@, Logged(security.frame[r].client_ip, now, 0))]
  /\ UNCHANGED <<injectvars, timevars, removed, calls, riskvars, statusvars,
                 agent, collector, generator>>

\* _check_rate_limit, lines 64-68: the entry of the client is created if it
\* has none, current_time is appended to it
check_append(r) ==
  /\ security.frame[r].pc = "append"
  /\ LET c == security.frame[r].client_ip
     IN  security' =
           [security EXCEPT
              !.rate_limit_storage =
                 [ k \in DOMAIN @ \cup { c } |->
                     IF k = c
                       THEN (IF c \in DOMAIN @ THEN @[c] ELSE << >>)
                            \o << security.frame[r].current_time >>
                       ELSE @[k] ],
              !.frame[r].pc = "filter"]
  /\ UNCHANGED <<injectvars, timevars, removed, calls, riskvars, statusvars,
                 agent, collector, generator>>

\* lines 71-75: recent_requests, the entries of the client younger than a
\* minute; a KeyError, the entry having been cleaned up, is answered 500
check_filter(r) ==
  /\ security.frame[r].pc = "filter"
  /\ LET c == security.frame[r].client_ip
     IN  IF c \in DOMAIN security.rate_limit_storage
           THEN security' =
                  [security EXCEPT
                     !.frame[r].recent =
                        After(security.rate_limit_storage[c],
                              security.frame[r].current_time - Minute),
                     !.frame[r].pc = "store"]
           ELSE security' =
                  [security EXCEPT
                     !.frame[r].pc = "done",
                     !.log[security.frame[r].n].code = 500]
  /\ UNCHANGED <<injectvars, timevars, removed, calls, riskvars, statusvars,
                 agent, collector, generator>>

\* lines 77-78 and 50-54: the entry of the client becomes recent_requests;
\* within the limit the decorated function is called, over it the answer
\* is 429
check_store(r) ==
  /\ security.frame[r].pc = "store"
  /\ LET c  == security.frame[r].client_ip
         ok == Len(security.frame[r].recent) <= security.requests_per_minute
     IN  security' =
           [security EXCEPT
              !.rate_limit_storage =
                 [ k \in DOMAIN @ \cup { c } |->
                     IF k = c THEN security.frame[r].recent ELSE @[k] ],
              !.frame[r].pc = IF ok THEN "call" ELSE "done",
              !.log[security.frame[r].n].code = IF ok THEN 200 ELSE 429]
  /\ UNCHANGED <<injectvars, timevars, removed, calls, riskvars, statusvars,
                 agent, collector, generator>>

\* line 55, return f(*args, **kwargs): inject is entered with the body d
inject_called(r, d) ==
  /\ security.frame[r].pc = "call"
  /\ inject_receive(r, d)

\* the request is answered, the thread takes the next request
thread_returns(r) ==
  /\ security.frame[r].pc \in { "call", "done" }
  /\ security' = [security EXCEPT !.frame[r] = NoFrame]
  /\ UNCHANGED <<injectvars, timevars, removed, calls, riskvars, statusvars,
                 agent, collector, generator>>

\* time passes between two statements: half a minute, or an hour
time_passes(d) ==
  /\ now < MaxClock
  /\ now' = now + d
  /\ UNCHANGED <<injectvars, end_time, burning, svcvars>>

(* --------------------------- specifications --------------------------- *)

\* the request thread after validation, no exception
RequestStep(r) ==
  \/ inject_create(r)
  \/ inject_dispatch(r)
  \/ inject_check(r)
  \/ inject_set_completed(r)
  \/ inject_set_end_time(r)
  \/ inject_commit(r)
  \/ inject_return(r)

\* the exceptions the request thread handles
RequestFault(r) ==
  \/ inject_snapshot_fails(r)
  \/ inject_add_fails(r)
  \/ inject_create_commit_fails(r)
  \/ inject_commit_fails(r)

\* the except clause of a worker
HandlerStep(r) ==
  \/ worker_set_error_message(r)
  \/ worker_set_failed(r)
  \/ worker_commit(r)
  \/ worker_commit_fails(r)

DiskStep(r) ==
  \/ disk_write(r)
  \/ \E exc \in ExceptionsOf("disk_stress") : disk_open_fails(r, exc)
  \/ \E exc \in ExceptionsOf("disk_stress") : disk_write_fails(r, exc)
  \/ disk_sleep(r)
  \/ disk_remove(r)
  \/ disk_remove_fails(r)
  \/ disk_completes(r)

\* one request and its worker, over the whole input domain, with failures
Next ==
  \/ \E d \in AllPayloads : inject_receive(1, d)
  \/ RequestStep(1)
  \/ RequestFault(1)
  \/ worker_completes(1)
  \/ \E exc \in ExceptionsOf("mem_stress") : worker_raises(1, exc)
  \/ HandlerStep(1)

Spec == Init /\ [][Next]_vars

\* concurrent requests, each with its worker, no failure
NextConcurrent ==
  \E r \in Requests :
    \/ \E d \in Payloads : inject_receive(r, d)
    \/ RequestStep(r)
    \/ worker_completes(r)

SpecConcurrent == Init /\ [][NextConcurrent]_vars

\* disk_fill requests: the file loop of disk_stress, with failures
NextDisk ==
  \E r \in DiskRequests :
    \/ \E d \in DiskPayloads : inject_receive(r, d)
    \/ RequestStep(r)
    \/ RequestFault(r)
    \/ DiskStep(r)
    \/ HandlerStep(r)

SpecDisk == Init /\ [][NextDisk]_vars

\* the try body of a timed worker
TimedStep(r) ==
  \/ cpu_start(r)
  \/ clock_advances(r)
  \/ burn_exit(r)
  \/ cpu_join(r)
  \/ mem_alloc(r)
  \/ mem_hold(r)
  \/ loop_start(r)
  \/ loop_sleep(r)
  \/ loop_exit(r)
  \/ sleep_once(r)

\* a worker: its try body (that of disk_stress as in SpecDisk, its sleep
\* not counted on the clock), an exception in it, its except clause
TimedWorker(r) ==
  \/ TimedStep(r)
  \/ DiskStep(r)
  \/ \E exc \in ExceptionsOf("mem_stress") : worker_raises(r, exc)
  \/ HandlerStep(r)

\* the body of the disk_fill requests sent concurrently: two files each
PairPayloads == { Body("disk_fill", JInt(1), "low") }

\* concurrent disk_fill requests: their workers write and remove the same
\* names chaos_disk_<i>.tmp in the one temp directory, so that a worker can
\* find a file of its list gone
NextDiskPair ==
  \E r \in Requests :
    \/ \E d \in PairPayloads : inject_receive(r, d)
    \/ RequestStep(r)
    \/ DiskStep(r)
    \/ disk_remove_missing(r)
    \/ HandlerStep(r)

SpecDiskPair == Init /\ [][NextDiskPair]_vars

\* the workers of concurrent disk_fill requests from their start to their
\* end, with failures: the request threads only create and dispatch
NextCleanup ==
  \E r \in Requests :
    \/ \E d \in PairPayloads : inject_receive(r, d)
    \/ inject_create(r)
    \/ inject_dispatch(r)
    \/ DiskStep(r)
    \/ disk_remove_missing(r)
    \/ HandlerStep(r)

SpecCleanup == Init /\ [][NextCleanup]_vars

\* one request and its worker against the clock, with failures
NextTimed ==
  \/ \E d \in TimedPayloads : inject_receive(1, d)
  \/ RequestStep(1)
  \/ RequestFault(1)
  \/ TimedWorker(1)

\* threads are scheduled fairly and the clock advances: a worker that can
\* take a step eventually takes one
SpecTimed == Init /\ [][NextTimed]_vars /\ WF_vars(TimedWorker(1))

\* POST /inject as in Spec, with GET /scenarios called at any moment
NextScenarios ==
  \/ Next
  \/ scenarios

SpecScenarios == Init /\ [][NextScenarios]_vars

\* predict_failure_likelihood called on every metrics dict, and called again
\* after one percentage has risen
InitRisk ==
  /\ InitInject
  /\ risk_metrics \in MetricsInputs
  /\ prediction = NoPrediction
  /\ InitComponents
  /\ collector = MetricsCollector("http://localhost:9090")

NextRisk ==
  \/ predict
  \/ \E key \in { "cpu_percent", "memory_percent", "disk_percent" } :
       \E p \in PercentInputs : metric_rises(key, p)

SpecRisk == InitRisk /\ [][NextRisk]_vars

\* GET /system-status under every combination of read outcomes
NextStatus == \E o \in ReadOutcomes : system_status(o)

SpecStatus == Init /\ [][NextStatus]_vars

\* calls of _record_remediation and execute_remediation in any order
NextRemediation ==
  \/ call_record_remediation
  \/ \E arg \in { "None", "str", "dict", "other" } :
       \E outcome \in { "True", "False", "raised" } :
         execute_remediation(arg, outcome)

SpecRemediation == Init /\ [][NextRemediation]_vars

\* a MetricsCollector built with either URL
InitPrometheus ==
  /\ InitInject
  /\ InitNoRisk
  /\ InitComponents
  /\ collector \in { MetricsCollector(url) : url \in PrometheusUrls }

\* the body of send_to_prometheus after the call
SendStep ==
  \/ send_validates
  \/ \E outcome \in PostOutcomes : send_posts(outcome)
  \/ send_gives_up

\* one call of send_to_prometheus, the endpoint answering as it likes
NextPrometheus ==
  \/ \E metrics \in MetricsArgs : send_to_prometheus(metrics)
  \/ SendStep

\* the calling thread keeps running: a call that can take a step takes one
SpecPrometheus ==
  InitPrometheus /\ [][NextPrometheus]_vars /\ WF_vars(SendStep)

\* collect_metrics called again and again, the reads doing as they like
NextCollect == \E o \in SectionOutcomes : collect_metrics(o)

SpecCollect == Init /\ [][NextCollect]_vars

\* evolve_scenarios called with any list and any feedback
NextEvolve ==
  \E arg \in ScenarioArgs, feedback \in FeedbackArgs :
    evolve_scenarios(arg, feedback)

SpecEvolve == Init /\ [][NextEvolve]_vars

\* the body of _check_rate_limit, statement by statement
CheckStep(r) ==
  \/ check_append(r)
  \/ check_filter(r)
  \/ check_store(r)

\* the arguments requests_per_minute the limiter is checked with
LimiterRates == { 1, 2 }

\* a rate_limit decorator of one or two requests per minute, no request yet
InitLimiter ==
  /\ InitInject
  /\ InitNoRisk
  /\ reads = NoReads
  /\ status_resp = NoStatus
  /\ agent = RemediationAgent
  /\ generator = NoEvolve
  /\ security \in { [SecurityManager EXCEPT !.requests_per_minute = n] :
                       n \in LimiterRates }
  /\ collector = MetricsCollector("http://localhost:9090")

\* the threads of the server take requests of any client, with any key, one
\* after the other, while time passes
NextLimiter ==
  \/ \E r \in Requests :
       \/ \E client_ip \in Clients, key \in ApiKeys :
            require_api_key(r, client_ip, key)
       \/ rate_limit(r)
       \/ CheckStep(r)
       \/ thread_returns(r)
  \/ \E d \in { Seconds(30), Hour } : time_passes(d)

SpecLimiter == InitLimiter /\ [][NextLimiter]_vars

\* the decorators of inject, requests_per_minute=30 (line 109); the first
\* client has sent no request, or thirty in this very millisecond
InitGuarded ==
  /\ InitInject
  /\ InitNoRisk
  /\ reads = NoReads
  /\ status_resp = NoStatus
  /\ agent = RemediationAgent
  /\ generator = NoEvolve
  /\ security \in
       { SecurityManager,
         [SecurityManager EXCEPT
            !.rate_limit_storage =
               [ c \in { "10.0.0.1" } |->
                   [ i \in 1..SecurityManager.requests_per_minute |-> 0 ] ]] }
  /\ collector = MetricsCollector("http://localhost:9090")

\* bodies sent through the decorators: one that validate_input accepts, one
\* it rejects for its scenario and one for its duration
GuardedPayloads ==
  { Body("cpu_spike", JInt(1), "low"),
    Body("not_a_real_scenario", JInt(5), "low"),
    Body("cpu_spike", JInt(0), "low") }

\* POST /inject behind its decorators: inject is entered by a request that
\* both have let through, and followed until its worker is started
NextGuarded ==
  \E r \in Requests :
    \/ \E client_ip \in Clients, key \in ApiKeys :
         require_api_key(r, client_ip, key)
    \/ rate_limit(r)
    \/ CheckStep(r)
    \/ \E d \in GuardedPayloads : inject_called(r, d)
    \/ inject_create(r)
    \/ inject_dispatch(r)

SpecGuarded == InitGuarded /\ [][NextGuarded]_vars

\* every scenario id of the two lists and ids of neither, with a duration
\* and an intensity that pass
CatalogPayloads ==
  { Body(s, JInt(1), "low") :
      s \in Range(valid_scenarios) \cup Range(available)
            \cup { "not_a_real_scenario", "generic_chaos", "", MISSING } }

\* one POST /inject of any scenario id, and GET /scenarios
NextCatalog ==
  \/ \E d \in CatalogPayloads : inject_receive(1, d)
  \/ RequestStep(1)
  \/ worker_completes(1)
  \/ scenarios

SpecCatalog == Init /\ [][NextCatalog]_vars

(* ------------------------------- claims ------------------------------- *)

\* what a claim calls a request in range: read off the JSON body alone
DurationInRange(d) ==
  d.isdict /\ d.duration.kind = "int" /\ d.duration.val >= 1 /\ d.duration.val <= 300

IntensityKnown(d) == d.isdict /\ d.intensity \in { "low", "medium", "high" }

ScenarioKnown(d) == d.isdict /\ InList(d.scenario, available)

WellFormed(d) == DurationInRange(d) /\ IntensityKnown(d) /\ ScenarioKnown(d)

Received(r) == reqpc[r] # "idle"

Accepted(r) == Received(r) /\ WellFormed(data[r])

Terminal(status) == status \in { "completed", "failed" }

C2_ExactlyOneTerminalTransition ==
  /\ [][\A r \in Requests :
          Terminal(experiment[r].status) =>
            experiment'[r].status = experiment[r].status]_vars
  /\ [](\A r \in Requests :
          (experiment[r].obj /\ reqpc[r] = "done" /\ wpc[r] = "done") =>
            Terminal(experiment[r].status))

\* C3: while the dispatched worker of an experiment is still running, the
\* status of the experiment is running, not completed.
C3_CompletedOnlyAfterWorker ==
  \A r \in Requests :
    (wpc[r] = "running" /\ experiment[r].id > 0) =>
      experiment[r].status = "running"

\* C4: no interleaving of the completion update of the request thread with
\* the failure update of the worker leaves status completed together with an
\* error_message.
C4_NoCompletedWithError ==
  \A r \in Requests :
    ~(experiment[r].status = "completed" /\ experiment[r].error_message # None)

\* C5: an accepted request is answered 200 with the requested scenario, the
\* same whether its worker is running, has succeeded or has failed, and the
\* request thread never waits: each of its steps is enabled whatever the worker
\* is doing.
C5_AcknowledgedWithoutWaiting ==
  \A r \in Requests :
    Accepted(r) =>
      /\ reqpc[r] = "done" =>
           /\ resp[r].code = 200
           /\ resp[r].scenario = data[r].scenario
           /\ resp[r] = Acknowledgement(data[r].scenario, data[r].duration.val,
                                        data[r].intensity)
      /\ reqpc[r] # "done" =>
           /\ resp[r] = NoResponse
           /\ ENABLED RequestStep(r)

\* C5 witness: the acknowledgement is out while the worker is still running
C5_Witness ==
  /\ reqpc[1] = "done"
  /\ resp[1].code = 200
  /\ wpc[1] = "running"

\* C6: when a worker has raised, the experiment of its injection ends failed
\* with an error message.
C6_WorkerErrorEndsFailed ==
  \A r \in Requests :
    (wexc[r] # None /\ experiment[r].obj /\ reqpc[r] = "done" /\ wpc[r] = "done") =>
      /\ experiment[r].status = "failed"
      /\ experiment[r].error_message # None

\* creating the record failed: the request is past the creation and its
\* experiment has no row
CreateFailed(r) ==
  /\ reqpc[r] \notin { "idle", "create" }
  /\ experiment[r].id = 0

\* C7: when creating or committing the experiment record fails, the request
\* goes on: its worker is dispatched and the caller gets the acknowledgement.
C7_LedgerFailureDoesNotAbort ==
  \A r \in Requests :
    (Accepted(r) /\ CreateFailed(r)) =>
      /\ reqpc[r] \notin { "dispatch" } => wpc[r] # "none"
      /\ reqpc[r] # "done" => ENABLED RequestStep(r)
      /\ reqpc[r] = "done" =>
           resp[r] = Acknowledgement(data[r].scenario, data[r].duration.val,
                                     data[r].intensity)

\* C7 witness: db.session.add or commit failed, the worker runs and the
\* caller has its acknowledgement
C7_Witness ==
  /\ current_metrics[1] = "metrics"
  /\ experiment[1].obj
  /\ experiment[1].id = 0
  /\ reqpc[1] = "done"
  /\ resp[1].code = 200
  /\ wpc[1] # "none"

\* C8: when the metrics snapshot fails, the injection goes on and an
\* experiment record is still created, with the metrics absent.
C8_SnapshotFailureStillRecorded ==
  \A r \in Requests :
    (current_metrics[r] = "raised" /\ reqpc[r] = "done") =>
      /\ resp[r].code = 200
      /\ wpc[r] # "none"
      /\ experiment[r].obj
      /\ experiment[r].metrics_before = None

\* C9: when a write of disk_stress has failed and the worker has ended, none
\* of the files it created before is left on disk.
C9_NoOrphanFiles ==
  \A r \in Requests :
    (Worker(r) = "disk_stress" /\ wexc[r] # None /\ wpc[r] = "done") =>
      Range(temp_files[r]) \cap fs = {}

Dispatched(r) == wpc[r] \notin { "none", "done" }

\* C11: every dispatched worker eventually ends by itself, having logged its
\* completion or having caught an exception; no step of the request thread
\* moves or ends a worker that has been dispatched.
C11_WorkerTerminatesUncancelled ==
  /\ Dispatched(1) ~> (wpc[1] = "done" /\ burning[1] = 0)
  /\ [][\A r \in Requests :
          (Dispatched(r) /\ reqpc'[r] # reqpc[r]) =>
            (wpc'[r] = wpc[r] /\ burning'[r] = burning[r])]_vars

\* C11 witness: a cpu_stress worker has ended by itself, after its burn
\* threads ran to end_time, and the request was answered long before
C11_Witness ==
  /\ wpc[1] = "done"
  /\ Worker(1) = "cpu_stress"
  /\ wexc[1] = None
  /\ now = Seconds(duration_of(data[1]))
  /\ reqpc[1] = "done"

\* the worker of request r ran its try body to the end, nothing raised
RanToCompletion(r) == wpc[r] = "done" /\ wexc[r] = None

\* C12: a mem_stress worker that ran to completion released its buffer at
\* most duration seconds after it started (the clock starts at 0 and only the
\* sleeps of the worker move it).
C12_MemoryLeakWithinDuration ==
  \A r \in Requests :
    (Worker(r) = "mem_stress" /\ RanToCompletion(r)) =>
      now <= Seconds(duration_of(data[r]))

\* C13: a delay-simulation worker (network_delay, timeout_simulation,
\* process_chaos, db_slowdown, generic_chaos) that ran to completion slept at
\* most duration seconds in total.
C13_DelayWithinDuration ==
  \A r \in Requests :
    (Worker(r) \in LoopWorkers \cup SleepWorkers /\ RanToCompletion(r)) =>
      now <= Seconds(duration_of(data[r]))

\* C14: every call of GET /scenarios is answered 200 with the same list as
\* the first call, element by element, and the list has at least 15 entries,
\* whatever POST /inject did before or between the calls.
C14_ScenariosStable ==
  \A i \in 1..Len(calls) :
    /\ calls[i].code = 200
    /\ calls[i].scenarios = calls[1].scenarios
    /\ Len(calls[i].scenarios) >= 15

\* C14 witness: two calls have been answered in a behaviour where an
\* injection was recorded and its worker failed
C14_Witness ==
  /\ Len(calls) >= 2
  /\ Len(rows) >= 1
  /\ wexc[1] # None /\ wpc[1] = "done"
  /\ calls[Len(calls)].scenarios = available

\* the largest element of a non-empty set of numbers
Maximum(S) == CHOOSE x \in S : \A y \in S : x >= y

\* C15: the risk_score returned is the maximum of the three per-resource
\* risks, and a call made after one percentage has risen while the other two
\* stayed never returns a lower risk_score than the call before.
C15_RiskScoreIsMaxAndMonotonic ==
  /\ [](prediction.called =>
          prediction.risk_score =
            Maximum({ prediction.specific_risks.cpu_failure,
                      prediction.specific_risks.memory_failure,
                      prediction.specific_risks.disk_failure }))
  /\ [][(prediction.called /\ prediction' # prediction) =>
          prediction'.risk_score >= prediction.risk_score]_vars

\* C15 witness: a prediction was returned, one percentage has risen since and
\* the next call returns a higher risk_score
C15_Witness ==
  /\ prediction.called
  /\ prediction.specific_risks.cpu_failure < prediction.risk_score
  /\ prediction.risk_score <
       assess_cpu_risk(GetPercent(risk_metrics.cpu_percent))

\* the metrics dict cpu=95, memory=50, disk=50
CpuBound ==
  [ cpu_percent |-> JInt(95), memory_percent |-> JInt(50),
    disk_percent |-> JInt(50) ]

\* C16: overall_risk is high exactly when risk_score > 0.7, medium exactly
\* when 0.4 < risk_score <= 0.7 and low otherwise; the call on cpu=95,
\* memory=50, disk=50 returns high with risk_score 0.9.
C16_RiskLabelThresholds ==
  /\ [](prediction.called =>
          /\ prediction.overall_risk = "high" <=> prediction.risk_score > 70
          /\ prediction.overall_risk = "medium" <=>
               (40 < prediction.risk_score /\ prediction.risk_score <= 70)
          /\ prediction.overall_risk = "low" <=> prediction.risk_score <= 40)
  /\ [][(risk_metrics = CpuBound /\ prediction' # prediction) =>
          (prediction'.overall_risk = "high" /\ prediction'.risk_score = 90)]_vars

\* C16 witness: the call on cpu=95, memory=50, disk=50 has returned
C16_Witness ==
  /\ risk_metrics = CpuBound
  /\ prediction.called
  /\ prediction.specific_risks =
       [ cpu_failure |-> 90, memory_failure |-> 10, disk_failure |-> 10 ]

\* position of a scenario in the order cpu_spike, memory_leak, disk_fill
Rank(scenario) ==
  CASE scenario = "cpu_spike"   -> 1
    [] scenario = "memory_leak" -> 2
    [] scenario = "disk_fill"   -> 3
    [] OTHER                    -> 0

\* C17: the recommended list holds cpu_spike iff the cpu risk is > 0.5,
\* memory_leak iff the memory risk is > 0.5, disk_fill iff the disk risk is
\* > 0.5, nothing else, each at most once, in the order cpu_spike,
\* memory_leak, disk_fill.
C17_RecommendedScenarios ==
  prediction.called =>
    LET l == prediction.recommended_preventive_chaos
        risks == prediction.specific_risks
    IN  /\ InList("cpu_spike", l) <=> risks.cpu_failure > 50
        /\ InList("memory_leak", l) <=> risks.memory_failure > 50
        /\ InList("disk_fill", l) <=> risks.disk_failure > 50
        /\ \A i \in 1..Len(l) : Rank(l[i]) > 0
        /\ \A i, j \in 1..Len(l) : i < j => Rank(l[i]) < Rank(l[j])

\* C17 witness: all three risks are above 0.5 and all three scenarios were
\* recommended
C17_Witness ==
  /\ prediction.called
  /\ prediction.recommended_preventive_chaos =
       << "cpu_spike", "memory_leak", "disk_fill" >>

Gauges == { "cpu", "memory", "disk", "network", "processes" }

\* C18: when a read of a gauge fails in GET /system-status, the request is
\* still answered 200 and the section of every gauge whose read failed is an
\* error-flagged section.
C18_GaugeFailureIsPartialPayload ==
  (\E g \in Gauges : Raised(reads[g])) =>
    /\ status_resp.code = 200
    /\ \A g \in Gauges : Raised(reads[g]) => status_resp[g] = "error"

\* C19: remediation_history never holds more than max_history records, and
\* it holds the records made last, oldest first: after n records, those
\* numbered n - Len + 1 .. n with Len = min(n, max_history).
C19_HistoryBounded ==
  LET history == agent.remediation_history
      kept    == Min(agent.recorded, max_history)
  IN  /\ Len(history) <= max_history
      /\ Len(history) = kept
      /\ \A i \in 1..Len(history) :
           history[i].timestamp = agent.recorded - kept + i

\* C19 witness: more than max_history records were made, the last of them by
\* execute_remediation, and the history is full
C19_Witness ==
  /\ agent.recorded > max_history
  /\ Len(agent.remediation_history) = max_history
  /\ agent.current_state = "degraded"
  /\ agent.returned = "False"

\* C20: a call of send_to_prometheus ends; it makes at most max_retries
\* attempts; and when it has ended without an attempt answered 200 it has
\* returned False.
C20_SendTerminatesWithinRetries ==
  /\ [](collector.attempts <= max_retries)
  /\ [](collector.pc = "done" /\ collector.answered # "200" =>
          collector.returned = "False")
  /\ (collector.pc = "loop") ~> (collector.pc = "done")

\* a key is in the dict collect_metrics returned
HasKey(key) == collector.collected[key] \in { "data", "error" }

\* C21: when the read of cpu, memory, disk or network raised in the last
\* collect_metrics, whatever the exception, the dict returned has the key of
\* that section and the key collection.
C21_SectionKeptOnError ==
  \A s \in { "cpu", "memory", "disk", "network" } :
    Raised(collector.psutil[s]) => (HasKey(s) /\ HasKey("collection"))

\* C22: whatever list of scenarios and whatever feedback evolve_scenarios is
\* given, the list it returns is non-empty and has at most max_scenarios
\* elements.
C22_EvolveBounded ==
  generator.called =>
    /\ generator.returned # << >>
    /\ Len(generator.returned) <= max_scenarios

\* C23: a cpu_spike worker starts exactly thread_count[intensity] burn threads
\* (2, 4 or 8) with one deadline, the time of the start plus duration; a burn
\* thread ends only once the clock has reached that deadline, no thread is
\* started later, and the worker logs its completion only when every one of
\* its burn threads has ended.
C23_CpuSpikeThreads ==
  [][\A r \in Requests :
       Worker(r) = "cpu_stress" =>
         /\ (wpc[r] = "running" /\ wpc'[r] = "join") =>
               /\ burning'[r] = thread_count(intensity_of(data[r]))
               /\ burning'[r] \in { 2, 4, 8 }
               /\ end_time'[r] = now + Seconds(duration_of(data[r]))
         /\ burning'[r] > burning[r] => (wpc[r] = "running" /\ wpc'[r] = "join")
         /\ burning'[r] < burning[r] =>
               /\ burning'[r] = burning[r] - 1
               /\ now >= end_time[r]
               /\ wpc[r] = "join"
         /\ wpc[r] = "join" => end_time'[r] = end_time[r]
         /\ (wpc[r] = "join" /\ wpc'[r] = "done") =>
               (burning[r] = 0 /\ now >= end_time[r])]_vars

\* C23 witness: a cpu_spike worker of high intensity has logged its
\* completion, its eight burn threads gone, the clock at its deadline
C23_Witness ==
  /\ Worker(1) = "cpu_stress"
  /\ intensity_of(data[1]) = "high"
  /\ RanToCompletion(1)
  /\ burning[1] = 0
  /\ end_time[1] = Seconds(duration_of(data[1]))
  /\ now >= end_time[1]

\* C24: in the cleanup phase of a disk_fill worker every step attempts the
\* removal of the next file of the worker's list, whatever the attempts
\* before it did; the phase ends only when the removal of every file the
\* worker created has been attempted, and it ends in the completion log, with
\* no exception caught: neither a missing file nor a failed removal makes
\* the worker report a failure.
C24_CleanupNeverStops ==
  [][\A r \in Requests :
       wpc[r] = "cleanup" =>
         /\ Range(temp_files[r]) = 0..(NumFiles(r) - 1)
         /\ wpc'[r] \in { "cleanup", "done" }
         /\ wexc'[r] = None
         /\ experiment'[r].status # "failed"
         /\ wpc'[r] = "cleanup" => Len(removed'[r]) >= Len(removed[r])
         /\ wpc'[r] = "done" =>
               /\ Len(removed[r]) = Len(temp_files[r])
               /\ wi[r] = Len(temp_files[r])]_vars

\* C24 witness: one disk_fill worker has logged its completion after a
\* cleanup whose first removal failed and whose second removed its file,
\* another after a cleanup whose second removal found that file gone
C24_Witness ==
  \E r, q \in Requests :
    /\ Worker(r) = "disk_stress" /\ RanToCompletion(r)
    /\ Worker(q) = "disk_stress" /\ RanToCompletion(q)
    /\ Len(removed[r]) = 2 /\ removed[r][2] = "FileNotFoundError"
    /\ removed[q] = << "OSError", "removed" >>

\* the disk_fill worker of request r has written its files and sleeps
\* (line 243) before its cleanup
Holding(r) ==
  /\ Worker(r) = "disk_stress"
  /\ wpc[r] = "running"
  /\ wi[r] = NumFiles(r)

\* C29: while a disk_fill worker is in its hold phase every file it created
\* is on disk, whatever the other disk_fill workers do meanwhile.
C29_HeldFilesExist ==
  \A r \in Requests :
    Holding(r) => Range(temp_files[r]) \subseteq fs

\* C25: every committed experiment whose status is completed or failed has
\* an end_time, and every committed experiment whose status is running has
\* neither an end_time nor an error_message.
C25_StatusFieldsAgree ==
  \A i \in 1..Len(rows) :
    /\ rows[i].status \in { "completed", "failed" } => rows[i].end_time # None
    /\ rows[i].status = "running" =>
          (rows[i].end_time = None /\ rows[i].error_message = None)

\* the columns of an experiment that are set when it is created
Created(e) ==
  << e.id, e.scenario, e.duration, e.intensity, e.start_time, e.metrics_before >>

\* a thread of request r takes the step
Acts(r) == reqpc'[r] # reqpc[r] \/ wpc'[r] # wpc[r]

\* C26: once an experiment is created, no step of a request thread or of a
\* worker changes its scenario, duration, intensity, start_time or
\* metrics_before, in the object or in its row; and a step changes the
\* object and the row of the request whose thread takes it, no other.
C26_CreatedFieldsFrozen ==
  [][/\ \A r \in Requests :
          /\ experiment[r].obj => Created(experiment'[r]) = Created(experiment[r])
          /\ experiment'[r] # experiment[r] => Acts(r)
     /\ Len(rows') >= Len(rows)
     /\ \A i \in 1..Len(rows) :
          /\ Created(rows'[i]) = Created(rows[i])
          /\ rows'[i] # rows[i] =>
                \E r \in Requests : experiment[r].id = i /\ Acts(r)]_vars

\* C26 witness: two experiments are recorded, the first failed by its worker
\* and the second completed by its request thread, each row with the
\* columns it was created with
C26_Witness ==
  /\ Len(rows) = 2
  /\ rows[1].status = "failed" /\ rows[1].error_message # None
  /\ rows[2].status = "completed" /\ rows[2].end_time # None
  /\ \A i \in 1..2 :
       /\ rows[i].scenario = "disk_fill"
       /\ rows[i].duration = 1
       /\ rows[i].intensity = "low"
       /\ rows[i].start_time = "utcnow"
       /\ rows[i].metrics_before = "json(current_metrics)"

\* the requests of the client of request k that reached the limiter no later
\* than k and less than a minute before it, k among them
InLastMinute(k) ==
  { j \in 1..k :
      /\ security.log[j].client_ip = security.log[k].client_ip
      /\ security.log[j].code # 401
      /\ security.log[j].time > security.log[k].time - Minute }

\* C27: the limiter lets a request of a client pass iff the requests of that
\* client in the last minute, passed and rejected alike, the request itself
\* among them, are at most requests_per_minute; so at most
\* requests_per_minute requests of one client pass in one minute, and the
\* requests of other clients do not count.
C27_RateLimitPerClient ==
  \A k \in 1..Len(security.log) :
    /\ security.log[k].code \in { 200, 429 } =>
         (security.log[k].code = 200 <=>
            Cardinality(InLastMinute(k)) <= security.requests_per_minute)
    /\ Cardinality({ j \in InLastMinute(k) : security.log[j].code = 200 })
         <= security.requests_per_minute

\* the decorators have answered the request of thread r with code
Answered(r, code) ==
  /\ security.frame[r].pc = "done"
  /\ security.frame[r].n > 0
  /\ security.log[security.frame[r].n].code = code

\* C28: POST /inject checks the API key, then the rate limit, then the
\* input.  A request is answered 401 before the limiter sees it, the
\* rate-limit storage unchanged; inject is entered, to validate the input,
\* create an experiment or start a worker, only by a request that the key
\* check and the limiter have both let through, so a request answered 401
\* or 429 has no experiment and no worker.
C28_ChecksInOrder ==
  /\ [](\A r \in Requests :
          /\ security.frame[r].pc # "call" =>
                /\ reqpc[r] = "idle"
                /\ resp[r] = NoResponse
                /\ ~experiment[r].obj
                /\ wpc[r] = "none"
          /\ (Answered(r, 401) \/ Answered(r, 429)) =>
                (~experiment[r].obj /\ wpc[r] = "none")
          /\ security.frame[r].pc \in { "append", "filter", "store", "call" } =>
                security.log[security.frame[r].n].code \in { 0, 200 })
  /\ [](Len(rows) <=
          Cardinality({ r \in Requests : security.frame[r].pc = "call" }))
  /\ [][\A r \in Requests :
          /\ (~Answered(r, 401) /\ Answered(r, 401)') =>
                /\ security.frame[r].pc = "idle"
                /\ security'.rate_limit_storage = security.rate_limit_storage
          /\ (~Answered(r, 429) /\ Answered(r, 429)') =>
                security.frame[r].pc = "store"]_vars

\* C28 witness: of two requests of one client, one with a wrong or missing
\* key was answered 401 and the other, with the key, 429; the storage holds
\* the timestamp of the second only, no experiment exists, no worker runs
C28_Witness ==
  /\ Answered(1, 401)
  /\ Answered(2, 429)
  /\ security.frame[1].client_ip = "10.0.0.1"
  /\ security.frame[2].client_ip = "10.0.0.1"
  /\ Len(security.rate_limit_storage["10.0.0.1"]) = 31
  /\ rows = << >>
  /\ \A r \in Requests : wpc[r] = "none" /\ ~experiment[r].obj

\* the scenarios inject has a worker of its own for
Dedicated ==
  { "cpu_spike", "memory_leak", "disk_fill", "network_latency", "api_timeout",
    "process_kill", "database_slowdown" }

\* the keys of simulation_scenarios
SimulationOnly == { id \in Range(valid_scenarios) : simulation_scenarios(id) # id }

\* C30: POST /inject accepts a scenario id iff GET /scenarios lists it; a
\* worker is started for accepted ids only, the worker of its own for each
\* of the seven built-in ids and the generic worker for the eight
\* simulation-only ids, never for an id that is not listed.
C30_ScenarioIdsAgree ==
  /\ Cardinality(SimulationOnly) = 8
  /\ \A i \in 1..Len(calls) :
       /\ Range(calls[i].scenarios) = Dedicated \cup SimulationOnly
       /\ Len(calls[i].scenarios) = 15
  /\ \A r \in Requests :
       LET sent == Get(data[r].scenario, "")
           id   == scenario_of(data[r])
       IN  /\ reqpc[r] # "idle" =>
                 /\ (reqpc[r] = "done" /\ resp[r].code = 400) <=>
                       sent \notin Dedicated \cup SimulationOnly
                 /\ \A i \in 1..Len(calls) :
                       resp[r].code # 400 <=> sent \in Range(calls[i].scenarios)
           /\ wpc[r] # "none" =>
                 /\ id = sent
                 /\ id \in Dedicated \cup SimulationOnly
                 /\ id \in Dedicated <=> Worker(r) # "generic_chaos"
                 /\ id \in SimulationOnly <=> Worker(r) = "generic_chaos"
                 /\ \A other \in Dedicated \ { id } : WorkerOf(other) # Worker(r)

\* C30 witness: GET /scenarios has listed load_balancer_failure, a request
\* for it was accepted and the generic worker runs for it
C30_Witness ==
  /\ Len(calls) >= 1
  /\ scenario_of(data[1]) = "load_balancer_failure"
  /\ InList("load_balancer_failure", calls[1].scenarios)
  /\ wpc[1] = "running"
  /\ Worker(1) = "generic_chaos"

====
